---- MODULE Spec2Model ----
(***************************************************************************)
(* A model of the 2pc-mpc cryptographic core.                              *)
(*                                                                         *)
(* Three components are modelled:                                          *)
(*   - the four round proof-aggregation session of one local party         *)
(*     (commitment, decommitment, proof share, aggregation), with the      *)
(*     other parties as its environment (SpecAgg);                         *)
(*   - the centralized presign party (commitment round and proof           *)
(*     verification round) receiving the decentralized output              *)
(*     (SpecPresign);                                                      *)
(*   - the commitment round of the centralized DKG party.                  *)
(* Spec runs one of the three sessions.                                    *)
(*                                                                         *)
(* Groups are instantiated with small concrete groups: the prime-order     *)
(* statement group is the subgroup {1, 2, 4} of the multiplicative group   *)
(* modulo 7 (order 3, generator 2), its scalar group is the integers       *)
(* modulo 3.  Group "addition" of the statement group is multiplication    *)
(* modulo 7, scalar multiplication is exponentiation.                      *)
(***************************************************************************)
EXTENDS Integers, Sequences, FiniteSets, TLC

\* ------------------------------------------------------------------------
\* Bounds of the model
\* ------------------------------------------------------------------------
MaxParties == 3

MaxBatch == 2

\* ------------------------------------------------------------------------
\* Generic helpers
\* ------------------------------------------------------------------------
RECURSIVE Pow(_, _, _)
Pow(base, exp, modulus) ==
    IF exp = 0 THEN 1 % modulus
    ELSE (base * Pow(base, exp - 1, modulus)) % modulus

SeqOf(S, n) == [1..n -> S]

SymmetricDifference(A, B) == (A \ B) \cup (B \ A)

Restrict(f, D) == [x \in D |-> f[x]]

\* All the orders in which the entries of a map with key set K can be iterated
IterationOrders(K) ==
    {o \in SeqOf(K, Cardinality(K)) : \A i, j \in 1..Cardinality(K) : i # j => o[i] # o[j]}

\* ------------------------------------------------------------------------
\* The scalar group (witness space of knowledge-of-discrete-log) and the
\* prime-order statement group
\* ------------------------------------------------------------------------
ScalarGroup == 0..2

ScalarOrder == Cardinality(ScalarGroup)

\* serialized scalar values; the value ScalarOrder is not the canonical
\* representation of a scalar and is rejected by new()
ScalarValues == 0..ScalarOrder

StatementGroup == {1, 2, 4}

ScalarNew(value) ==
    IF value \in ScalarGroup THEN [ok |-> TRUE, element |-> value]
    ELSE [ok |-> FALSE, element |-> 0]

ScalarAdd(a, b) == (a + b) % ScalarOrder

\* scalar_mul of a scalar by an unsigned integer (a challenge)
ScalarMulUint(a, c) == (a * c) % ScalarOrder

\* the scalar k with k * b = a, for b not zero
ScalarDivide(a, b) == CHOOSE k \in ScalarGroup : ScalarMulUint(k, b) = a

GroupNeutral == 1

GroupAdd(a, b) == (a * b) % 7

\* scalar_mul of a group element by an unsigned integer
GroupScalarMul(a, c) == Pow(a, c, 7)

\* ------------------------------------------------------------------------
\* Knowledge of discrete log language
\* ------------------------------------------------------------------------
REPETITIONS == 1

Reps == 1..REPETITIONS

LanguagePublicParameters == [name |-> "Knowledge of the Discrete Log", generator |-> 2]

ProtocolContext == 0

group_homomorphism(witness, language_public_parameters) ==
    GroupScalarMul(language_public_parameters.generator, witness)

\* ------------------------------------------------------------------------
\* Knowledge of decommitment language: the witness is the pair
\* <<value, randomness>> of the product of two scalar groups, the public
\* parameters are those of the Pedersen commitment scheme
\* ------------------------------------------------------------------------
KnowledgeOfDecommitmentPublicParameters ==
    [name |-> "Knowledge of Decommitment", generator |-> 2, randomness_generator |-> 4]

decommitment_group_homomorphism(witness, language_public_parameters) ==
    GroupAdd(GroupScalarMul(language_public_parameters.generator, witness[1]),
             GroupScalarMul(language_public_parameters.randomness_generator, witness[2]))

\* the homomorphism of the language the public parameters belong to
Language_group_homomorphism(witness, language_public_parameters) ==
    IF language_public_parameters.name = "Knowledge of Decommitment"
    THEN decommitment_group_homomorphism(witness, language_public_parameters)
    ELSE group_homomorphism(witness, language_public_parameters)

\* ------------------------------------------------------------------------
\* Fiat-Shamir transcript: a sequence of absorbed <<label, value>> items; a
\* challenge is a digest of everything absorbed so far
\* ------------------------------------------------------------------------
LabelCode(label) ==
    CASE label = "Knowledge of the Discrete Log" -> 1
      [] label = "Knowledge of Decommitment" -> 8
      [] label = "protocol context" -> 2
      [] label = "public parameters" -> 3
      [] label = "statement value" -> 4
      [] label = "randomizer public value" -> 5
      [] label = "challenge" -> 6
      [] OTHER -> 7

ChallengeSpace == 0..3

RECURSIVE Digest(_, _)
Digest(transcript, h) ==
    IF transcript = <<>> THEN h
    ELSE Digest(Tail(transcript),
                (h * 5 + 3 * LabelCode(Head(transcript)[1]) + Head(transcript)[2] + 1) % 64)

TranscriptNew(name) == << <<name, 0>> >>

SerializeToTranscript(transcript, label, value) == Append(transcript, <<label, value>>)

\* the idx-th challenge drawn from the transcript: every draw appends the
\* label to the transcript, so successive draws digest different transcripts
TranscriptChallenge(transcript, label, idx) ==
    Digest(transcript \o [i \in 1..idx |-> <<label, 0>>], 0) % Cardinality(ChallengeSpace)

RECURSIVE AbsorbAll(_, _, _)
AbsorbAll(transcript, label, values) ==
    IF values = <<>> THEN transcript
    ELSE AbsorbAll(SerializeToTranscript(transcript, label, Head(values)), label, Tail(values))

setup_protocol(protocol_context, public_parameters, statements) ==
    LET t0 == TranscriptNew(public_parameters.name)
        t1 == SerializeToTranscript(t0, "protocol context", protocol_context)
        t2 == SerializeToTranscript(t1, "public parameters",
                  public_parameters.generator
                      + (IF "randomness_generator" \in DOMAIN public_parameters
                         THEN 8 * public_parameters.randomness_generator ELSE 0))
    IN  AbsorbAll(t2, "statement value", statements)

\* faulty variant: the challenges are drawn before the statement masks are
\* absorbed
compute_challenges_before_masks(statement_masks, batch_size, transcript) ==
    [k \in Reps |->
        [j \in 1..batch_size |->
            TranscriptChallenge(transcript, "challenge", (k - 1) * batch_size + j)]]

\* challenges[k][j]: the challenge of repetition k for statement j
compute_challenges(statement_masks, batch_size, transcript) ==
    LET t == AbsorbAll(transcript, "randomizer public value", statement_masks)
    IN  [k \in Reps |->
            [j \in 1..batch_size |-> TranscriptChallenge(t, "challenge", (k - 1) * batch_size + j)]]

\* ------------------------------------------------------------------------
\* Batched Schnorr proof
\* ------------------------------------------------------------------------
ProofNew(statement_masks, responses) ==
    [statement_masks |-> statement_masks, responses |-> responses]

RECURSIVE ScalarLinearCombination(_, _)
\* sum_j challenges[j] * witnesses[j] in the scalar group
ScalarLinearCombination(challenges, witnesses) ==
    IF witnesses = <<>> THEN 0
    ELSE ScalarAdd(ScalarMulUint(Head(witnesses), Head(challenges)),
                   ScalarLinearCombination(Tail(challenges), Tail(witnesses)))

RECURSIVE GroupLinearCombination(_, _)
\* sum_j challenges[j] * statements[j] in the statement group
GroupLinearCombination(challenges, statements) ==
    IF statements = <<>> THEN GroupNeutral
    ELSE GroupAdd(GroupScalarMul(Head(statements), Head(challenges)),
                  GroupLinearCombination(Tail(challenges), Tail(statements)))

\* z_k = r_k + sum_j c_{k,j} * w_j
ProveResponses(randomizers, witnesses, challenges) ==
    [k \in Reps |-> ScalarAdd(randomizers[k], ScalarLinearCombination(challenges[k], witnesses))]

\* faulty variant: the masks are checked to be group elements, the equation
\* is not checked
ProofVerifyWithoutEquation(proof, number_of_parties, protocol_context, language_public_parameters, statements) ==
    \A k \in Reps : proof.statement_masks[k] \in StatementGroup

\* phi(z_k) = mask_k + sum_j c_{k,j} * s_j for the re-derived challenges
ProofVerify(proof, number_of_parties, protocol_context, language_public_parameters, statements) ==
    LET transcript == setup_protocol(protocol_context, language_public_parameters, statements)
        challenges == compute_challenges(proof.statement_masks, Len(statements), transcript)
    IN  \A k \in Reps :
            Language_group_homomorphism(proof.responses[k], language_public_parameters)
                = GroupAdd(proof.statement_masks[k],
                           GroupLinearCombination(challenges[k], statements))

\* ------------------------------------------------------------------------
\* State
\* ------------------------------------------------------------------------
VARIABLES
    party,          \* the local party object of the aggregation session; its
                    \* shape is the struct of the round it is in
    honest_shares,  \* for every other party, the proof share it computes
                    \* when it follows the protocol
    proof_shares,   \* the map handed to aggregate_proof_shares
    result,         \* what aggregate_proof_shares returned
    restart,        \* a caller that restarts aggregation sessions: the parties
                    \* that remain and what the last session returned
    cparty,         \* the centralized presign party object
    nonce_message,  \* the commitments and proof the centralized presign party published
    honest_output,  \* the output of the decentralized presign party
    tampering,      \* what happened to that output on its way
    output,         \* the output handed to verify_presign_output
    presign_result, \* what verify_presign_output returned
    dec_presign,    \* the decentralized presign party: the masks and nonce
                    \* shares it sampled and the presign rows it holds
    dkg_party,      \* the centralized DKG party object
    dkg_message,    \* the commitment the centralized DKG party published, -1 before
    dkg_committee,  \* the decentralized DKG party object
    dkg_shares,     \* per committee party, the share and encryption randomness
                    \* it sampled
    dkg_output,     \* the message of the decentralized DKG party
    dkg_decommitment, \* the decommitment the decentralized DKG party receives
    dkg_result,     \* the error or the public key the decentralized DKG party
                    \* ends with
    sign_secrets,   \* the secrets behind a sign session: key shares, nonce
                    \* shares, mask and commitment randomness
    sign_party,     \* the decentralized sign party objects, one per party id
    sign_message,   \* the message to sign and the centralized party's message
    schnorr,        \* the prover and verifier of one batched Schnorr proof
    call,           \* a call of a pure function and, once it has returned, its result
    sign_result     \* per party, what partially_decrypt_encrypted_signature_parts
                    \* returned

agg_vars == <<party, honest_shares, proof_shares, result, restart>>

presign_vars ==
    <<cparty, nonce_message, honest_output, tampering, output, presign_result, dec_presign>>

dkg_vars ==
    <<dkg_party, dkg_message, dkg_committee, dkg_shares, dkg_output, dkg_decommitment,
      dkg_result>>

sign_vars == <<sign_secrets, sign_party, sign_message, sign_result>>

proof_vars == <<schnorr>>

vars == <<agg_vars, presign_vars, dkg_vars, sign_vars, proof_vars, call>>

\* faulty variant: the round is performed on a borrowed party object, which stays
\* as it was
BorrowParty(self, next_round_party) == self

\* faulty variant: the party object of the next round gets a protocol
\* context of its own
ConsumePartyWithNewContext(self, next_round_party) ==
    IF "protocol_context" \in DOMAIN next_round_party
    THEN [next_round_party EXCEPT !.protocol_context = @ + 1]
    ELSE next_round_party

\* a party object is taken by value by the round it performs: what remains
\* is the party object of the next round
ConsumeParty(self, next_round_party) == next_round_party

NoResult == [kind |-> "None", ids |-> {}, proof |-> <<>>, statements |-> <<>>]

\* no caller restarts sessions
NoRestart ==
    [phase |-> "none", threshold |-> 0, honest |-> {}, remaining |-> {}, removed |-> {},
     witnesses |-> <<>>, randomizers |-> <<>>,
     honest_shares |-> <<>>, proof_shares |-> <<>>, result |-> NoResult]

Ok(proof, statements) ==
    [kind |-> "Ok", ids |-> {}, proof |-> proof, statements |-> statements]

Err(kind, ids) == [kind |-> kind, ids |-> ids, proof |-> <<>>, statements |-> <<>>]

\* ------------------------------------------------------------------------
\* Proof aggregation round
\* ------------------------------------------------------------------------
\* faulty variant: late joiners are kept in the map
FilterProofSharesKeepingLateJoiners(self, shares) ==
    Restrict(shares, {party_id \in DOMAIN shares : party_id # self.party_id})

\* parties that did not take part in the previous round, and the local
\* party itself, are removed from the map
FilterProofShares(self, shares) ==
    Restrict(shares,
             {party_id \in DOMAIN shares :
                  /\ party_id # self.party_id
                  /\ party_id \in self.previous_round_party_ids})

\* faulty variant: only the first missing party is reported
UnresponsivePartiesFirstOnly(self, shares) ==
    LET missing == SymmetricDifference(DOMAIN shares, self.previous_round_party_ids)
    IN  IF missing = {} THEN {} ELSE {CHOOSE p \in missing : \A o \in missing : p <= o}

UnresponsiveParties(self, shares) ==
    SymmetricDifference(DOMAIN shares, self.previous_round_party_ids)

\* faulty variant: values are reduced into the group instead of being rejected
DecodeProofShareReducing(proof_share) ==
    [ok |-> TRUE, elements |-> [k \in Reps |-> proof_share[k] % ScalarOrder]]

\* flat_map_results over WitnessSpaceGroupElement::new of every value
DecodeProofShare(proof_share) ==
    IF \A k \in Reps : ScalarNew(proof_share[k]).ok
    THEN [ok |-> TRUE, elements |-> [k \in Reps |-> ScalarNew(proof_share[k]).element]]
    ELSE [ok |-> FALSE, elements |-> <<>>]

PartiesSendingInvalidProofShares(shares) ==
    {party_id \in DOMAIN shares : ~DecodeProofShare(shares[party_id]).ok}

\* faulty variant: the accumulator is doubled before a share is added
AddResponsesDoubling(aggregated_reponses, proof_share) ==
    [k \in Reps |-> ScalarAdd(ScalarAdd(aggregated_reponses[k], aggregated_reponses[k]),
                              proof_share[k])]

AddResponses(aggregated_reponses, proof_share) ==
    [k \in Reps |-> ScalarAdd(aggregated_reponses[k], proof_share[k])]

RECURSIVE FoldResponsesSkippingLast(_, _, _)
\* faulty variant: the last entry of the map is left out of the sum
FoldResponsesSkippingLast(aggregated_reponses, shares, order) ==
    IF Len(order) <= 1 THEN aggregated_reponses
    ELSE FoldResponsesSkippingLast(AddResponses(aggregated_reponses, shares[Head(order)]),
                                   shares, Tail(order))

RECURSIVE FoldResponses(_, _, _)
\* the fold over proof_shares.values(), in the order the map is iterated
FoldResponses(aggregated_reponses, shares, order) ==
    IF order = <<>> THEN aggregated_reponses
    ELSE FoldResponses(AddResponses(aggregated_reponses, shares[Head(order)]),
                       shares, Tail(order))

\* the parties whose proof share, as a proof with the aggregated statement
\* masks, does not verify against the aggregated statements
ProofShareCheatingParties(self, shares, number_of_parties) ==
    {party_id \in DOMAIN shares :
        ~ProofVerify(ProofNew(self.aggregated_statement_masks, shares[party_id]),
                     number_of_parties, self.protocol_context,
                     self.language_public_parameters, self.aggregated_statements)}

aggregate_proof_shares(self, shares_received, order) ==
    LET shares == FilterProofShares(self, shares_received)
        number_of_parties == Cardinality(DOMAIN shares) + 1
        unresponsive_parties == UnresponsiveParties(self, shares)
        invalid == PartiesSendingInvalidProofShares(shares)
        decoded == [party_id \in DOMAIN shares |-> DecodeProofShare(shares[party_id]).elements]
        response == FoldResponses(self.responses, decoded, order)
        aggregated_proof == ProofNew(self.aggregated_statement_masks, response)
    IN  IF unresponsive_parties # {} THEN Err("UnresponsiveParties", unresponsive_parties)
        ELSE IF invalid # {} THEN Err("InvalidProofShare", invalid)
        ELSE IF ~ProofVerify(aggregated_proof, number_of_parties, self.protocol_context,
                             self.language_public_parameters, self.aggregated_statements)
             THEN Err("ProofShareVerification",
                      ProofShareCheatingParties(self, decoded, number_of_parties))
        ELSE Ok(aggregated_proof, self.aggregated_statements)

\* ------------------------------------------------------------------------
\* The earlier rounds of the session
\* ------------------------------------------------------------------------
OtherParties(self) == (1..self.number_of_parties) \ {self.party_id}

RECURSIVE GroupSum(_, _)
\* the sum in the statement group of f[p] over p in S
GroupSum(f, S) ==
    IF S = {} THEN GroupNeutral
    ELSE LET p == CHOOSE x \in S : TRUE
         IN  GroupAdd(f[p], GroupSum(f, S \ {p}))

Statements(witnesses) ==
    [j \in DOMAIN witnesses |-> group_homomorphism(witnesses[j], LanguagePublicParameters)]

StatementMasks(randomizers) ==
    [k \in Reps |-> group_homomorphism(randomizers[k], LanguagePublicParameters)]

AggInit ==
    /\ \E n \in 1..MaxParties, b \in 1..MaxBatch :
         \E id \in 1..n, w \in SeqOf(ScalarGroup, b) :
            party = [round |-> "commitment", party_id |-> id, number_of_parties |-> n,
                     witnesses |-> w]
    /\ honest_shares = <<>>
    /\ proof_shares = <<>>
    /\ result = NoResult
    /\ restart = NoRestart

\* no aggregation session takes place
AggIdle ==
    /\ party = [round |-> "none"]
    /\ honest_shares = <<>>
    /\ proof_shares = <<>>
    /\ result = NoResult
    /\ restart = NoRestart

\* commitment round: sample the randomizers, compute statements and masks
CommitStatementsAndStatementMask ==
    /\ party.round = "commitment"
    /\ \E randomizers \in SeqOf(ScalarGroup, REPETITIONS) :
         party' = ConsumeParty(party,
                  [round |-> "decommitment", party_id |-> party.party_id,
                   number_of_parties |-> party.number_of_parties,
                   witnesses |-> party.witnesses,
                   statements |-> Statements(party.witnesses),
                   randomizers |-> randomizers,
                   statement_masks |-> StatementMasks(randomizers)])
    /\ UNCHANGED <<honest_shares, proof_shares, result, restart, presign_vars, dkg_vars,
                   sign_vars, proof_vars, call>>

\* decommitment round: the commitments of the other parties are received
DecommitStatementsAndStatementMask ==
    /\ party.round = "decommitment"
    /\ party' = ConsumeParty(party,
                [round |-> "proof_share", party_id |-> party.party_id,
                 number_of_parties |-> party.number_of_parties,
                 witnesses |-> party.witnesses,
                 statements |-> party.statements,
                 randomizers |-> party.randomizers,
                 statement_masks |-> party.statement_masks,
                 commitments |-> OtherParties(party)])
    /\ UNCHANGED <<honest_shares, proof_shares, result, restart, presign_vars, dkg_vars,
                   sign_vars, proof_vars, call>>

\* proof share round: the decommitments (statements and statement masks) of
\* the other parties are received and aggregated, the challenges are derived
\* from the aggregated values and the local response is computed
GenerateProofShare ==
    /\ party.round = "proof_share"
    /\ \E peers \in [party.commitments ->
                        [witnesses : SeqOf(ScalarGroup, Len(party.witnesses)),
                         randomizers : SeqOf(ScalarGroup, REPETITIONS)]] :
         LET all == party.commitments \cup {party.party_id}
             statements == [p \in all |-> IF p = party.party_id THEN party.statements
                                          ELSE Statements(peers[p].witnesses)]
             masks == [p \in all |-> IF p = party.party_id THEN party.statement_masks
                                     ELSE StatementMasks(peers[p].randomizers)]
             aggregated_statements ==
                 [j \in DOMAIN party.witnesses |->
                     GroupSum([p \in all |-> statements[p][j]], all)]
             aggregated_statement_masks ==
                 [k \in Reps |-> GroupSum([p \in all |-> masks[p][k]], all)]
             challenges ==
                 compute_challenges(aggregated_statement_masks, Len(aggregated_statements),
                     setup_protocol(ProtocolContext, LanguagePublicParameters,
                                    aggregated_statements))
         IN  /\ party' = ConsumeParty(party,
                         [round |-> "aggregation", party_id |-> party.party_id,
                          number_of_parties |-> party.number_of_parties,
                          language_public_parameters |-> LanguagePublicParameters,
                          protocol_context |-> ProtocolContext,
                          previous_round_party_ids |-> party.commitments,
                          aggregated_statements |-> aggregated_statements,
                          aggregated_statement_masks |-> aggregated_statement_masks,
                          responses |-> ProveResponses(party.randomizers, party.witnesses,
                                                       challenges)])
             /\ honest_shares' =
                    [p \in party.commitments |->
                        ProveResponses(peers[p].randomizers, peers[p].witnesses, challenges)]
    /\ UNCHANGED <<proof_shares, result, restart, presign_vars, dkg_vars, sign_vars,
                   proof_vars, call>>

\* the maps the caller can hand over: every other party of the session is
\* absent or sends any value; the local party's own id and the id of a party
\* that never took part are absent or carry a valid or an invalid value
ExtraShareValues == {[k \in Reps |-> 1], [k \in Reps |-> ScalarOrder]}

ProofShareMaps(self) ==
    LET late_joiner == self.number_of_parties + 1
        extra == {self.party_id, late_joiner}
    IN  UNION {{f \in [K -> SeqOf(ScalarValues, REPETITIONS)] :
                    \A p \in K \cap extra : f[p] \in ExtraShareValues} :
               K \in SUBSET (1..late_joiner)}

AggregateProofShares ==
    /\ party.round = "aggregation"
    /\ \E shares \in ProofShareMaps(party) :
         \E order \in IterationOrders(DOMAIN FilterProofShares(party, shares)) :
            /\ proof_shares' = shares
            /\ result' = aggregate_proof_shares(party, shares, order)
    /\ party' = ConsumeParty(party, [party EXCEPT !.round = "done"])
    /\ UNCHANGED <<honest_shares, restart, presign_vars, dkg_vars, sign_vars, proof_vars, call>>

NextAgg ==
    \/ CommitStatementsAndStatementMask
    \/ DecommitStatementsAndStatementMask
    \/ GenerateProofShare
    \/ AggregateProofShares

\* ------------------------------------------------------------------------
\* A caller that restarts the aggregation without the parties an error names
\* ------------------------------------------------------------------------
\* the local party after the proof share round of a session among `parties`,
\* and the proof share each other party computes when it follows the
\* protocol
ProofShareRound(party_id, parties, witnesses, randomizers) ==
    LET aggregated_statements ==
            [j \in DOMAIN witnesses[party_id] |->
                GroupSum([p \in parties |-> Statements(witnesses[p])[j]], parties)]
        aggregated_statement_masks ==
            [k \in Reps |->
                GroupSum([p \in parties |-> StatementMasks(randomizers[p])[k]], parties)]
        challenges ==
            compute_challenges(aggregated_statement_masks, Len(aggregated_statements),
                setup_protocol(ProtocolContext, LanguagePublicParameters,
                               aggregated_statements))
    IN  [party |->
             [round |-> "aggregation", party_id |-> party_id,
              number_of_parties |-> Cardinality(parties),
              language_public_parameters |-> LanguagePublicParameters,
              protocol_context |-> ProtocolContext,
              previous_round_party_ids |-> parties \ {party_id},
              aggregated_statements |-> aggregated_statements,
              aggregated_statement_masks |-> aggregated_statement_masks,
              responses |-> ProveResponses(randomizers[party_id], witnesses[party_id],
                                           challenges)],
         honest_shares |->
             [p \in parties \ {party_id} |->
                 ProveResponses(randomizers[p], witnesses[p], challenges)]]

\* the caller is party 1 and follows the protocol; of the other parties at
\* least so many follow the protocol that the threshold is reached; every
\* party has a witness and the randomizer its rng gives
RestartInit ==
    /\ party = [round |-> "none"]
    /\ honest_shares = <<>>
    /\ proof_shares = <<>>
    /\ result = NoResult
    /\ \E number_of_parties \in 1..MaxParties, threshold \in 1..MaxParties :
         \E honest \in SUBSET (1..number_of_parties),
            witnesses \in [1..number_of_parties -> SeqOf(ScalarGroup, 1)],
            randomizers \in [1..number_of_parties -> SeqOf(ScalarGroup, REPETITIONS)] :
            /\ 1 \in honest
            /\ Cardinality(honest) >= threshold
            /\ restart = [phase |-> "session", threshold |-> threshold, honest |-> honest,
                          remaining |-> 1..number_of_parties, removed |-> {},
                          witnesses |-> witnesses, randomizers |-> randomizers,
                          honest_shares |-> <<>>, proof_shares |-> <<>>,
                          result |-> NoResult]

\* a session among the remaining parties up to the call of
\* aggregate_proof_shares: every party sends a proof share, the parties that
\* follow the protocol the one they computed, the others any value
RunAggregationSession ==
    /\ restart.phase = "session"
    /\ LET session == ProofShareRound(1, restart.remaining, restart.witnesses,
                                      restart.randomizers)
           others == restart.remaining \ {1}
       IN  \E shares \in [others -> SeqOf(ScalarValues, REPETITIONS)] :
              /\ \A p \in others \cap restart.honest :
                    shares[p] = session.honest_shares[p]
              /\ restart' =
                     [restart EXCEPT
                         !.phase = "returned",
                         !.honest_shares = session.honest_shares,
                         !.proof_shares = shares,
                         !.result = aggregate_proof_shares(session.party, shares,
                                        CHOOSE o \in IterationOrders(others) : TRUE)]
    /\ UNCHANGED <<party, honest_shares, proof_shares, result, presign_vars, dkg_vars,
                   sign_vars, proof_vars, call>>

\* the caller is done after Ok; after an error it removes exactly the
\* parties the error names and restarts if the threshold still holds
RemoveNamedPartiesAndRestart ==
    /\ restart.phase = "returned"
    /\ restart' =
           IF restart.result.kind = "Ok" THEN [restart EXCEPT !.phase = "done"]
           ELSE LET remaining == restart.remaining \ restart.result.ids
                IN  [restart EXCEPT
                        !.phase = IF Cardinality(remaining) >= restart.threshold
                                  THEN "session" ELSE "failed",
                        !.remaining = remaining,
                        !.removed = @ \cup restart.result.ids,
                        !.honest_shares = <<>>,
                        !.proof_shares = <<>>,
                        !.result = NoResult]
    /\ UNCHANGED <<party, honest_shares, proof_shares, result, presign_vars, dkg_vars,
                   sign_vars, proof_vars, call>>

NextRestart ==
    \/ RunAggregationSession
    \/ RemoveNamedPartiesAndRestart

\* ------------------------------------------------------------------------
\* Presign: encryption scheme, commitments and enhanced proofs
\* ------------------------------------------------------------------------
\* Paillier with the modulus N = 3 * 5; ciphertexts live modulo N^2
PaillierModulus == 3 * 5

CiphertextModulus == PaillierModulus * PaillierModulus

Min(a, b) == IF a <= b THEN a ELSE b

\* CiphertextSpaceGroupElement::new: a value is a ciphertext when it is
\* invertible modulo N^2
CiphertextNew(value) ==
    /\ value \in 1..(CiphertextModulus - 1)
    /\ value % 3 # 0
    /\ value % 5 # 0

\* GroupElement::new and the range proof commitment space new()
GroupElementNew(value) == value \in StatementGroup

\* (1 + N)^m * r^N mod N^2
encrypt_with_randomness(plaintext, randomness) ==
    ((1 + PaillierModulus * plaintext) * Pow(randomness, PaillierModulus, CiphertextModulus))
        % CiphertextModulus

\* scalar multiplication of a ciphertext followed by re-randomization
EvaluateMaskedKeyShare(encrypted_key_share, mask, randomness) ==
    (Pow(encrypted_key_share, mask, CiphertextModulus)
        * encrypt_with_randomness(0, randomness)) % CiphertextModulus

\* Pedersen commitment with the generators 2 and 4 of the statement group
PedersenCommit(message, randomness) ==
    GroupAdd(GroupScalarMul(2, message), GroupScalarMul(4, randomness))

\* An enhanced (or plain) Maurer proof is sound and bound to its transcript:
\* it verifies for the language, protocol context, public parameters and
\* statements it was produced for, and for nothing else
EnhancedProve(language, protocol_context, language_public_parameters, statements) ==
    [language |-> language, protocol_context |-> protocol_context,
     public_parameters |-> language_public_parameters, statements |-> statements]

EnhancedVerify(proof, language, protocol_context, language_public_parameters, statements) ==
    proof = EnhancedProve(language, protocol_context, language_public_parameters, statements)

\* ------------------------------------------------------------------------
\* Presign: the centralized party
\* ------------------------------------------------------------------------
NoPresignResult == [kind |-> "None", presigns |-> <<>>, proofs_verified |-> 0]

PresignErr(kind, proofs_verified) ==
    [kind |-> kind, presigns |-> <<>>, proofs_verified |-> proofs_verified]

PresignOk(presigns) == [kind |-> "Ok", presigns |-> presigns, proofs_verified |-> 2]

\* faulty variant: only the number of encrypted masks is compared
BatchSizeMismatchMasksOnly(self, out) ==
    Len(out.encrypted_masks) # Len(self.signature_nonce_shares_and_commitment_randomnesses)

BatchSizeMismatch(self, out) ==
    LET batch_size == Len(self.signature_nonce_shares_and_commitment_randomnesses)
    IN  \/ Len(out.encrypted_masked_key_shares) # batch_size
        \/ Len(out.encrypted_masks) # batch_size
        \/ Len(out.nonce_public_shares) # batch_size

\* collect::<group::Result<Vec<_>>>() over new(): fails when a value is no
\* element of its group
AllCiphertexts(values) == \A i \in DOMAIN values : CiphertextNew(values[i])

AllGroupElements(values) == \A i \in DOMAIN values : GroupElementNew(values[i])

\* zip of the three vectors: as many statements as the shortest has entries
EncryptionOfTupleStatements(encrypted_masks, encrypted_masked_key_shares, commitments) ==
    [i \in 1..Min(Min(Len(encrypted_masks), Len(encrypted_masked_key_shares)),
                  Len(commitments)) |->
        <<commitments[i], <<encrypted_masks[i], encrypted_masked_key_shares[i]>> >>]

EncryptionOfTuplePublicParameters(encryption_modulus, ciphertext) ==
    [encryption_modulus |-> encryption_modulus, ciphertext |-> ciphertext]

EncryptionOfDiscreteLogStatements(encrypted_nonces, nonce_public_shares, commitments) ==
    [i \in 1..Min(Min(Len(encrypted_nonces), Len(nonce_public_shares)),
                  Len(commitments)) |->
        <<commitments[i], <<encrypted_nonces[i], nonce_public_shares[i]>> >>]

EncryptionOfDiscreteLogPublicParameters(encryption_modulus, generator) ==
    [encryption_modulus |-> encryption_modulus, generator |-> generator]

VerifyMasksProof(self, out) ==
    EnhancedVerify(out.masks_and_encrypted_masked_key_share_proof,
        "Encryption of a Tuple", self.protocol_context,
        EncryptionOfTuplePublicParameters(self.encryption_scheme_public_parameters,
            self.encrypted_decentralized_party_secret_key_share),
        EncryptionOfTupleStatements(out.encrypted_masks, out.encrypted_masked_key_shares,
            out.key_share_masking_range_proof_commitments))

\* faulty variant: the encryption-of-discrete-log proof is not verified
VerifyNoncesProofSkipped(self, out) == TRUE

VerifyNoncesProof(self, out) ==
    EnhancedVerify(out.encrypted_nonce_shares_and_public_shares_proof,
        "Encryption of a Discrete Log", self.protocol_context,
        EncryptionOfDiscreteLogPublicParameters(self.encryption_scheme_public_parameters,
            self.generator),
        EncryptionOfDiscreteLogStatements(out.encrypted_nonces, out.nonce_public_shares,
            out.nonce_sharing_range_proof_commitments))

\* faulty variant: the encrypted mask is stored as the masked key share too
PresignsRepeatingMask(self, out) ==
    LET shares == self.signature_nonce_shares_and_commitment_randomnesses
    IN  [i \in 1..Min(Min(Len(out.nonce_public_shares), Len(out.encrypted_masks)),
                      Min(Len(out.encrypted_masked_key_shares), Len(shares))) |->
            [nonce_share |-> shares[i][1],
             decentralized_party_nonce_public_share |-> out.nonce_public_shares[i],
             encrypted_mask |-> out.encrypted_masks[i],
             encrypted_masked_key_share |-> out.encrypted_masks[i],
             commitment_randomness |-> shares[i][2]]]

\* faulty variant: a row stores the nonce share and the commitment
\* randomness of the row counted from the other end
PresignsMirroredShares(self, out) ==
    LET shares == self.signature_nonce_shares_and_commitment_randomnesses
        n == Min(Min(Len(out.nonce_public_shares), Len(out.encrypted_masks)),
                 Min(Len(out.encrypted_masked_key_shares), Len(shares)))
    IN  [i \in 1..n |->
            [nonce_share |-> shares[n + 1 - i][1],
             decentralized_party_nonce_public_share |-> out.nonce_public_shares[i],
             encrypted_mask |-> out.encrypted_masks[i],
             encrypted_masked_key_share |-> out.encrypted_masked_key_shares[i],
             commitment_randomness |-> shares[n + 1 - i][2]]]

\* zip of the three row vectors of the output with the sampled nonce shares
Presigns(self, out) ==
    LET shares == self.signature_nonce_shares_and_commitment_randomnesses
    IN  [i \in 1..Min(Min(Len(out.nonce_public_shares), Len(out.encrypted_masks)),
                      Min(Len(out.encrypted_masked_key_shares), Len(shares))) |->
            [nonce_share |-> shares[i][1],
             decentralized_party_nonce_public_share |-> out.nonce_public_shares[i],
             encrypted_mask |-> out.encrypted_masks[i],
             encrypted_masked_key_share |-> out.encrypted_masked_key_shares[i],
             commitment_randomness |-> shares[i][2]]]

verify_presign_output(self, out) ==
    IF BatchSizeMismatch(self, out) THEN PresignErr("InvalidParameters", 0)
    ELSE IF ~AllCiphertexts(out.encrypted_masks) THEN PresignErr("Group", 0)
    ELSE IF ~AllCiphertexts(out.encrypted_masked_key_shares) THEN PresignErr("Group", 0)
    ELSE IF ~AllGroupElements(out.key_share_masking_range_proof_commitments)
         THEN PresignErr("Group", 0)
    ELSE IF ~VerifyMasksProof(self, out) THEN PresignErr("Proofs", 1)
    ELSE IF ~AllCiphertexts(out.encrypted_nonces) THEN PresignErr("Group", 1)
    ELSE IF ~AllGroupElements(out.nonce_public_shares) THEN PresignErr("Group", 1)
    ELSE IF ~AllGroupElements(out.nonce_sharing_range_proof_commitments)
         THEN PresignErr("Group", 1)
    ELSE IF ~VerifyNoncesProof(self, out) THEN PresignErr("Proofs", 2)
    ELSE PresignOk(Presigns(self, out))

\* ------------------------------------------------------------------------
\* Presign: the session of the centralized party
\* ------------------------------------------------------------------------
\* the two encryptions of a decentralized party secret key share that occur
KeyShareEncryptions == {encrypt_with_randomness(1, 2), encrypt_with_randomness(2, 2)}

\* the non-zero scalars
NonZeroScalars == ScalarGroup \ {0}

PresignInit ==
    /\ \E encrypted_key_share \in KeyShareEncryptions :
         cparty = [round |-> "commitment",
                   protocol_context |-> ProtocolContext,
                   scalar_group_public_parameters |-> ScalarOrder,
                   encryption_scheme_public_parameters |-> PaillierModulus,
                   unbounded_encdl_witness_public_parameters |-> PaillierModulus,
                   unbounded_encdh_witness_public_parameters |-> PaillierModulus,
                   range_proof_public_parameters |-> <<2, 4>>,
                   generator |-> LanguagePublicParameters.generator,
                   encrypted_decentralized_party_secret_key_share |-> encrypted_key_share]
    /\ nonce_message = <<>>
    /\ honest_output = <<>>
    /\ tampering = <<>>
    /\ output = <<>>
    /\ presign_result = NoPresignResult
    /\ dec_presign = <<>>

\* no presign session takes place
PresignIdle ==
    /\ cparty = [round |-> "none"]
    /\ nonce_message = <<>>
    /\ honest_output = <<>>
    /\ tampering = <<>>
    /\ output = <<>>
    /\ presign_result = NoPresignResult
    /\ dec_presign = <<>>

\* commitment round of the centralized party: batch_size nonce shares and
\* commitment randomnesses are sampled, committed to and proven
SampleCommitAndProveSignatureNonceShare ==
    /\ cparty.round = "commitment"
    /\ \E batch_size \in 1..MaxBatch :
         \E signature_nonce_shares \in SeqOf(NonZeroScalars, batch_size),
            commitment_randomnesses \in SeqOf(NonZeroScalars, batch_size) :
            LET shares == [i \in 1..batch_size |->
                              <<signature_nonce_shares[i], commitment_randomnesses[i]>>]
                commitments == [i \in 1..batch_size |->
                                   PedersenCommit(shares[i][1], shares[i][2])]
            IN  /\ nonce_message' =
                       [commitments |-> commitments,
                        proof |-> EnhancedProve("Knowledge of Decommitment",
                                      cparty.protocol_context, <<2, 4>>, commitments)]
                /\ cparty' = ConsumeParty(cparty,
                       [round |-> "proof_verification",
                        protocol_context |-> cparty.protocol_context,
                        scalar_group_public_parameters |->
                            cparty.scalar_group_public_parameters,
                        encryption_scheme_public_parameters |->
                            cparty.encryption_scheme_public_parameters,
                        unbounded_encdl_witness_public_parameters |->
                            cparty.unbounded_encdl_witness_public_parameters,
                        unbounded_encdh_witness_public_parameters |->
                            cparty.unbounded_encdh_witness_public_parameters,
                        range_proof_public_parameters |->
                            cparty.range_proof_public_parameters,
                        generator |-> cparty.generator,
                        signature_nonce_shares_and_commitment_randomnesses |-> shares,
                        encrypted_decentralized_party_secret_key_share |->
                            cparty.encrypted_decentralized_party_secret_key_share])
    /\ UNCHANGED <<honest_output, tampering, output, presign_result, dec_presign,
                   agg_vars, dkg_vars, sign_vars, proof_vars, call>>

\* faulty variant: the result is not multiplied by the inverse of lambda
decrypt_without_inverse(ciphertext) ==
    ((Pow(ciphertext, 4, CiphertextModulus) - 1) \div PaillierModulus) % PaillierModulus

\* Paillier decryption with the key of the modulus 3 * 5 (lambda = 4 and
\* its inverse modulo N, which is 4 as well)
decrypt(ciphertext) ==
    (((Pow(ciphertext, 4, CiphertextModulus) - 1) \div PaillierModulus) * 4) % PaillierModulus

\* faulty variant: the nonce of a row is masked with the mask of the row
\* counted from the other end
initialize_proof_aggregation_mirrored(self, encrypted_masks) ==
    LET n == Min(Len(encrypted_masks), Len(self.shares_of_signature_nonce_shares_witnesses))
    IN  [i \in 1..n |->
            EvaluateMaskedKeyShare(encrypted_masks[n + 1 - i],
                self.shares_of_signature_nonce_shares_witnesses[i], 2)]

\* the masked nonce round of the decentralized party: the zip of the
\* encrypted masks with the nonce shares; row i is the evaluation of the
\* encrypted mask of row i by the nonce share of row i
initialize_proof_aggregation(self, encrypted_masks) ==
    [i \in 1..Min(Len(encrypted_masks), Len(self.shares_of_signature_nonce_shares_witnesses)) |->
        EvaluateMaskedKeyShare(encrypted_masks[i],
            self.shares_of_signature_nonce_shares_witnesses[i], 2)]

\* the presign rows of the decentralized party: the zip of its four vectors
DecentralizedPresigns(self, masked_nonces_encryptions) ==
    [i \in 1..Min(Min(Len(self.nonce_public_shares), Len(self.masks_encryptions)),
                  Min(Len(self.masked_key_share_encryptions),
                      Len(masked_nonces_encryptions))) |->
        [nonce_public_share |-> self.nonce_public_shares[i],
         mask_encryption |-> self.masks_encryptions[i],
         masked_key_share_encryption |-> self.masked_key_share_encryptions[i],
         masked_nonce_encryption |-> masked_nonces_encryptions[i]]]

\* the decentralized party answers with its output: for each of its rows a
\* mask and a nonce share, encrypted, the masked key share evaluated on its
\* copy of the encrypted key share, and the two proofs over these rows
DecentralizedPartyOutput ==
    /\ cparty.round = "proof_verification"
    /\ honest_output = <<>>
    /\ \E batch_size \in 1..MaxBatch, encrypted_key_share \in KeyShareEncryptions :
         \E masks \in SeqOf(NonZeroScalars, batch_size),
            nonces \in SeqOf(NonZeroScalars, batch_size) :
            LET encrypted_masks ==
                    [i \in 1..batch_size |-> encrypt_with_randomness(masks[i], 2)]
                encrypted_masked_key_shares ==
                    [i \in 1..batch_size |->
                        EvaluateMaskedKeyShare(encrypted_key_share, masks[i], 2)]
                key_share_masking_range_proof_commitments ==
                    [i \in 1..batch_size |-> PedersenCommit(masks[i], 1)]
                encrypted_nonces ==
                    [i \in 1..batch_size |-> encrypt_with_randomness(nonces[i], 2)]
                nonce_public_shares ==
                    [i \in 1..batch_size |->
                        group_homomorphism(nonces[i], LanguagePublicParameters)]
                nonce_sharing_range_proof_commitments ==
                    [i \in 1..batch_size |-> PedersenCommit(nonces[i], 1)]
                self == [shares_of_signature_nonce_shares_witnesses |-> nonces,
                         nonce_public_shares |-> nonce_public_shares,
                         masks_encryptions |-> encrypted_masks,
                         masked_key_share_encryptions |-> encrypted_masked_key_shares]
            IN  /\ dec_presign' =
                    [masks |-> masks,
                     shares_of_signature_nonce_shares_witnesses |-> nonces,
                     presigns |-> DecentralizedPresigns(self,
                                      initialize_proof_aggregation(self, encrypted_masks))]
                /\ honest_output' =
                    [encrypted_masks |-> encrypted_masks,
                     encrypted_masked_key_shares |-> encrypted_masked_key_shares,
                     key_share_masking_range_proof_commitments |->
                         key_share_masking_range_proof_commitments,
                     masks_and_encrypted_masked_key_share_proof |->
                         EnhancedProve("Encryption of a Tuple", ProtocolContext,
                             EncryptionOfTuplePublicParameters(PaillierModulus,
                                                               encrypted_key_share),
                             EncryptionOfTupleStatements(encrypted_masks,
                                 encrypted_masked_key_shares,
                                 key_share_masking_range_proof_commitments)),
                     encrypted_nonces |-> encrypted_nonces,
                     nonce_public_shares |-> nonce_public_shares,
                     nonce_sharing_range_proof_commitments |->
                         nonce_sharing_range_proof_commitments,
                     encrypted_nonce_shares_and_public_shares_proof |->
                         EnhancedProve("Encryption of a Discrete Log", ProtocolContext,
                             EncryptionOfDiscreteLogPublicParameters(PaillierModulus,
                                 LanguagePublicParameters.generator),
                             EncryptionOfDiscreteLogStatements(encrypted_nonces,
                                 nonce_public_shares,
                                 nonce_sharing_range_proof_commitments))]
    /\ UNCHANGED <<cparty, nonce_message, tampering, output, presign_result,
                   agg_vars, dkg_vars, sign_vars, proof_vars, call>>

\* the vectors of the output, by the kind of value they hold
CiphertextFields == {"encrypted_masks", "encrypted_masked_key_shares", "encrypted_nonces"}

GroupElementFields ==
    {"nonce_public_shares", "key_share_masking_range_proof_commitments",
     "nonce_sharing_range_proof_commitments"}

VectorFields == CiphertextFields \cup GroupElementFields

\* the values a vector entry can be replaced with: an element of the group
\* of the field and a value outside of it
ReplacementValues(field) == IF field \in CiphertextFields THEN {1, PaillierModulus} ELSE {4, 3}

\* what can happen to an output between the decentralized party and the
\* call: nothing, two entries of a vector are swapped, an entry is
\* replaced, the last entry of a vector is dropped, an entry is appended;
\* or the sender itself leaves the last entry of a vector out and proves
\* the statements that remain ("shorten")
Tamperings(out) ==
    LET rows == 1..Len(out.encrypted_masks)
    IN  {[kind |-> "none", field |-> "", i |-> 0, j |-> 0, value |-> 0]}
        \cup {[kind |-> "swap", field |-> f, i |-> i, j |-> j, value |-> 0] :
                 f \in VectorFields, i \in rows, j \in {k \in rows : k > 1} }
        \cup UNION {{[kind |-> "replace", field |-> f, i |-> i, j |-> 0, value |-> v] :
                        i \in rows, v \in ReplacementValues(f)} : f \in VectorFields}
        \cup {[kind |-> k, field |-> f, i |-> 0, j |-> 0, value |-> 0] :
                 k \in {"drop", "append"}, f \in VectorFields}
        \cup {[kind |-> "shorten", field |-> f, i |-> 0, j |-> 0, value |-> 0] :
                 f \in {g \in VectorFields : Len(out[g]) > 1} }

\* the two proofs of an output, produced over the statements its vectors give
ProveOutput(out) ==
    [out EXCEPT
        !.masks_and_encrypted_masked_key_share_proof.statements =
            EncryptionOfTupleStatements(out.encrypted_masks,
                out.encrypted_masked_key_shares,
                out.key_share_masking_range_proof_commitments),
        !.encrypted_nonce_shares_and_public_shares_proof.statements =
            EncryptionOfDiscreteLogStatements(out.encrypted_nonces,
                out.nonce_public_shares,
                out.nonce_sharing_range_proof_commitments)]

Tamper(out, t) ==
    LET vector == out[t.field]
    IN  CASE t.kind = "none" -> out
          [] t.kind = "swap" ->
                [out EXCEPT ![t.field] =
                    [vector EXCEPT ![t.i] = vector[t.j], ![t.j] = vector[t.i]]]
          [] t.kind = "replace" -> [out EXCEPT ![t.field] = [vector EXCEPT ![t.i] = t.value]]
          [] t.kind = "drop" -> [out EXCEPT ![t.field] = SubSeq(vector, 1, Len(vector) - 1)]
          [] t.kind = "append" -> [out EXCEPT ![t.field] = Append(vector, vector[1])]
          [] t.kind = "shorten" ->
                ProveOutput([out EXCEPT ![t.field] = SubSeq(vector, 1, Len(vector) - 1)])

\* proof verification round: the output that arrives is verified
VerifyPresignOutput ==
    /\ cparty.round = "proof_verification"
    /\ honest_output # <<>>
    /\ \E t \in Tamperings(honest_output) :
         /\ tampering' = t
         /\ output' = Tamper(honest_output, t)
         /\ presign_result' = verify_presign_output(cparty, Tamper(honest_output, t))
    /\ cparty' = ConsumeParty(cparty, [cparty EXCEPT !.round = "done"])
    /\ UNCHANGED <<nonce_message, honest_output, dec_presign, agg_vars, dkg_vars, sign_vars, proof_vars, call>>

NextPresign ==
    \/ SampleCommitAndProveSignatureNonceShare
    \/ DecentralizedPartyOutput
    \/ VerifyPresignOutput

\* ------------------------------------------------------------------------
\* DKG: the commitment round of the centralized party
\* ------------------------------------------------------------------------
CommitTranscript(transcript, commitment_randomness) ==
    Digest(SerializeToTranscript(
               SerializeToTranscript(transcript, "commitment randomness",
                                     commitment_randomness),
               "commitment", 0), 0)

\* faulty variant: the public key share is not absorbed
commit_without_public_key_share(public_key_share, commitment_randomness) ==
    CommitTranscript(TranscriptNew("DKG commitment round of centralized party"),
                     commitment_randomness)

commit_public_key_share(public_key_share, commitment_randomness) ==
    CommitTranscript(
        SerializeToTranscript(TranscriptNew("DKG commitment round of centralized party"),
                              "public key share", public_key_share),
        commitment_randomness)

DkgInit ==
    /\ dkg_party = [round |-> "commitment",
                    protocol_context |-> ProtocolContext,
                    scalar_group_public_parameters |-> ScalarOrder,
                    group_public_parameters |-> LanguagePublicParameters.generator,
                    encryption_scheme_public_parameters |-> PaillierModulus,
                    unbounded_encdl_witness_public_parameters |-> PaillierModulus,
                    range_proof_public_parameters |-> <<2, 4>>]
    /\ dkg_message = -1
    /\ \E number_of_parties \in 1..MaxParties, threshold \in 1..MaxParties :
         dkg_committee = [round |-> "encryption_of_secret_key_share",
                          party_id |-> 1,
                          threshold |-> threshold,
                          parties |-> 1..number_of_parties,
                          protocol_context |-> ProtocolContext,
                          encryption_scheme_public_parameters |-> PaillierModulus]
    /\ dkg_shares = <<>>
    /\ dkg_output = <<>>
    /\ dkg_decommitment = <<>>
    /\ dkg_result = [kind |-> "None", public_key |-> 0]

\* no DKG session takes place
DkgIdle ==
    /\ dkg_party = [round |-> "none"]
    /\ dkg_message = -1
    /\ dkg_committee = [round |-> "none"]
    /\ dkg_shares = <<>>
    /\ dkg_output = <<>>
    /\ dkg_decommitment = <<>>
    /\ dkg_result = [kind |-> "None", public_key |-> 0]

SampleCommitAndProveSecretKeyShare ==
    /\ dkg_party.round = "commitment"
    /\ \E secret_key_share \in ScalarGroup, commitment_randomness \in 0..1,
          randomizers \in SeqOf(ScalarGroup, REPETITIONS) :
         LET public_key_share ==
                 group_homomorphism(secret_key_share, LanguagePublicParameters)
             statement_masks == StatementMasks(randomizers)
             challenges ==
                 compute_challenges(statement_masks, 1,
                     setup_protocol(dkg_party.protocol_context, LanguagePublicParameters,
                                    <<public_key_share>>))
             knowledge_of_discrete_log_proof ==
                 ProofNew(statement_masks,
                          ProveResponses(randomizers, <<secret_key_share>>, challenges))
         IN  /\ dkg_message' =
                    commit_public_key_share(public_key_share, commitment_randomness)
             /\ dkg_party' = ConsumeParty(dkg_party,
                    [round |-> "decommitment",
                     protocol_context |-> dkg_party.protocol_context,
                     scalar_group_public_parameters |->
                         dkg_party.scalar_group_public_parameters,
                     group_public_parameters |-> dkg_party.group_public_parameters,
                     encryption_scheme_public_parameters |->
                         dkg_party.encryption_scheme_public_parameters,
                     unbounded_encdl_witness_public_parameters |->
                         dkg_party.unbounded_encdl_witness_public_parameters,
                     range_proof_public_parameters |->
                         dkg_party.range_proof_public_parameters,
                     secret_key_share |-> secret_key_share,
                     public_key_share |-> public_key_share,
                     knowledge_of_discrete_log_proof |-> knowledge_of_discrete_log_proof,
                     commitment_randomness |-> commitment_randomness])
    /\ UNCHANGED <<dkg_committee, dkg_shares, dkg_output, dkg_decommitment, dkg_result,
                   agg_vars, presign_vars, sign_vars, proof_vars, call>>

\* ------------------------------------------------------------------------
\* DKG: the decentralized party
\* ------------------------------------------------------------------------
\* the statement of the encryption of discrete log language for a share and
\* its encryption randomness, with the commitment of the range proof
EncryptionOfDiscreteLogStatement(share, encryption_randomness) ==
    [range_proof_commitment |-> PedersenCommit(share, 0),
     encryption_of_discrete_log |-> encrypt_with_randomness(share, encryption_randomness),
     base_by_discrete_log |-> GroupScalarMul(LanguagePublicParameters.generator, share)]

RECURSIVE AggregateStatements(_, _)
\* the sum of the statements of the parties in S, component by component
AggregateStatements(statements, S) ==
    IF S = {}
    THEN [range_proof_commitment |-> GroupNeutral,
          encryption_of_discrete_log |-> 1,
          base_by_discrete_log |-> GroupNeutral]
    ELSE LET p == CHOOSE x \in S : TRUE
             rest == AggregateStatements(statements, S \ {p})
         IN  [range_proof_commitment |->
                  GroupAdd(statements[p].range_proof_commitment,
                           rest.range_proof_commitment),
              encryption_of_discrete_log |->
                  (statements[p].encryption_of_discrete_log
                      * rest.encryption_of_discrete_log) % CiphertextModulus,
              base_by_discrete_log |->
                  GroupAdd(statements[p].base_by_discrete_log, rest.base_by_discrete_log)]

\* an error (or, with the kind "None", no result yet) of the DKG
DkgErr(kind) == [kind |-> kind, public_key |-> 0]

DkgOk(public_key) == [kind |-> "Ok", public_key |-> public_key]

\* faulty variant: a party set of exactly threshold parties is refused too
ThresholdNotReachedInclusive(self) == Cardinality(self.parties) <= self.threshold

ThresholdNotReached(self) == Cardinality(self.parties) < self.threshold

\* the two parties returned by the encryption of secret key share round,
\* as one object: the aggregation session and what the decommitment proof
\* verification needs later
sample_secret_key_share_and_initialize_proof_aggregation(self, commitment_to_centralized_party_secret_key_share, share, encryption_randomness) ==
    [round |-> "proof_aggregation",
     party_id |-> self.party_id,
     threshold |-> self.threshold,
     number_of_parties |-> Cardinality(self.parties),
     protocol_context |-> self.protocol_context,
     commitment_to_centralized_party_secret_key_share |->
         commitment_to_centralized_party_secret_key_share,
     share_of_decentralized_party_secret_key_share |-> share,
     encryption_of_secret_share_proof_aggregation_round_party |->
         [party_id |-> self.party_id,
          parties |-> self.parties,
          language_public_parameters |->
              EncryptionOfDiscreteLogPublicParameters(
                  self.encryption_scheme_public_parameters,
                  LanguagePublicParameters.generator),
          protocol_context |-> self.protocol_context,
          witnesses |-> << <<share, encryption_randomness>> >>]]

\* the ways the aggregation of the session can end without a proof
AggregationFailures == {"UnresponsiveParties", "InvalidProofShare", "ProofShareVerification"}

\* the aggregation of the proof shares of the session: the proof and the
\* aggregated statement, or the error the aggregation ended with
AggregateEncryptionOfDiscreteLog(session, shares, failure) ==
    IF failure \in AggregationFailures THEN Err(failure, {})
    ELSE LET statements ==
                 << AggregateStatements(
                        [p \in session.parties |->
                             EncryptionOfDiscreteLogStatement(shares[p].share,
                                 shares[p].encryption_randomness)],
                        session.parties) >>
         IN  Ok(EnhancedProve("encryption_of_discrete_log", session.protocol_context,
                              session.language_public_parameters, statements),
                statements)

\* faulty variant: the party's own statement is taken
OwnStatement(self, statements) ==
    LET witness == self.encryption_of_secret_share_proof_aggregation_round_party.witnesses[1]
    IN  EncryptionOfDiscreteLogStatement(witness[1], witness[2])

\* the statement the output is built from: the first (and only) aggregated
\* statement
FirstStatement(self, statements) == statements[1]

\* the proof aggregation round of the DKG, given the result of the
\* aggregation of its session: the message for the centralized party and the
\* party of the next round
dkg_aggregate_proof_shares(self, aggregated) ==
    LET statement == FirstStatement(self, aggregated.statements)
    IN  [message |->
             [public_key_share |-> statement.base_by_discrete_log,
              range_proof_commitment |-> statement.range_proof_commitment,
              encryption_of_secret_key_share |-> statement.encryption_of_discrete_log,
              encryption_of_secret_key_share_proof |-> aggregated.proof],
         party |->
             [round |-> "decommitment_proof_verification",
              party_id |-> self.party_id,
              threshold |-> self.threshold,
              number_of_parties |-> self.number_of_parties,
              protocol_context |-> self.protocol_context,
              commitment_to_centralized_party_secret_key_share |->
                  self.commitment_to_centralized_party_secret_key_share,
              share_of_decentralized_party_secret_key_share |->
                  self.share_of_decentralized_party_secret_key_share,
              public_key_share |-> statement.base_by_discrete_log,
              encryption_of_secret_key_share |-> statement.encryption_of_discrete_log]]

\* faulty variant: the commitment is recomputed with the randomness 0
ReconstructCommitmentWithoutRandomness(decommitment) ==
    commit_public_key_share(decommitment.public_key_share, 0)

ReconstructCommitment(decommitment) ==
    commit_public_key_share(decommitment.public_key_share,
                            decommitment.commitment_randomness)

\* faulty variant: the joint key is the public key share of the centralized
\* party
JointPublicKeyCentralizedOnly(centralized_party_public_key_share, public_key_share) ==
    centralized_party_public_key_share

JointPublicKey(centralized_party_public_key_share, public_key_share) ==
    GroupAdd(centralized_party_public_key_share, public_key_share)

\* the decommitment proof verification round
verify_decommitment_and_proof_of_centralized_party_public_key_share(self, decommitment) ==
    IF ReconstructCommitment(decommitment)
           # self.commitment_to_centralized_party_secret_key_share
    THEN DkgErr("WrongDecommitment")
    ELSE IF ~GroupElementNew(decommitment.public_key_share) THEN DkgErr("Group")
    ELSE IF ~ProofVerify(decommitment.proof, 1, self.protocol_context,
                         LanguagePublicParameters, <<decommitment.public_key_share>>)
        THEN DkgErr("Proofs")
    ELSE DkgOk(JointPublicKey(decommitment.public_key_share, self.public_key_share))

\* ------------------------------------------------------------------------
\* DKG: the session
\* ------------------------------------------------------------------------
\* the decentralized party of the first round receives the commitment of
\* the centralized party; the encryption randomness of party p is the unit
\* 2^p of the randomness group
SampleSecretKeyShareAndInitializeProofAggregation ==
    /\ dkg_committee.round = "encryption_of_secret_key_share"
    /\ dkg_message >= 0
    /\ IF ThresholdNotReached(dkg_committee)
       THEN /\ dkg_result' = DkgErr("ThresholdNotReached")
            /\ dkg_committee' = ConsumeParty(dkg_committee, [round |-> "done"])
            /\ UNCHANGED dkg_shares
       ELSE \E shares \in [dkg_committee.parties -> ScalarGroup] :
                /\ dkg_shares' = [p \in dkg_committee.parties |->
                                      [share |-> shares[p], encryption_randomness |-> Pow(2, p, PaillierModulus)]]
                /\ dkg_committee' = ConsumeParty(dkg_committee,
                       sample_secret_key_share_and_initialize_proof_aggregation(
                           dkg_committee, dkg_message, shares[dkg_committee.party_id],
                           Pow(2, dkg_committee.party_id, PaillierModulus)))
                /\ UNCHANGED dkg_result
    /\ UNCHANGED <<dkg_party, dkg_message, dkg_output, dkg_decommitment,
                   agg_vars, presign_vars, sign_vars, proof_vars, call>>

\* faulty variant: an error of the aggregation is reported, but the message
\* and the party of the next round are returned all the same
DkgAggregateProofSharesAfterError ==
    /\ dkg_committee.round = "proof_aggregation"
    /\ \E failure \in AggregationFailures \cup {"None"} :
         LET aggregated ==
                 AggregateEncryptionOfDiscreteLog(
                     dkg_committee.encryption_of_secret_share_proof_aggregation_round_party,
                     dkg_shares, "None")
             out == dkg_aggregate_proof_shares(dkg_committee, aggregated)
         IN  /\ dkg_result' = IF failure = "None" THEN dkg_result ELSE DkgErr(failure)
             /\ dkg_output' = out.message
             /\ dkg_committee' = ConsumeParty(dkg_committee, out.party)
    /\ UNCHANGED <<dkg_party, dkg_message, dkg_shares, dkg_decommitment,
                   agg_vars, presign_vars, sign_vars, proof_vars, call>>

\* the proof aggregation round of the decentralized party
DkgAggregateProofShares ==
    /\ dkg_committee.round = "proof_aggregation"
    /\ \E failure \in AggregationFailures \cup {"None"} :
         LET aggregated ==
                 AggregateEncryptionOfDiscreteLog(
                     dkg_committee.encryption_of_secret_share_proof_aggregation_round_party,
                     dkg_shares, failure)
         IN  IF aggregated.kind # "Ok"
             THEN /\ dkg_result' = DkgErr(aggregated.kind)
                  /\ dkg_committee' = ConsumeParty(dkg_committee, [round |-> "done"])
                  /\ UNCHANGED dkg_output
             ELSE IF aggregated.statements = <<>>
                 THEN /\ dkg_result' = DkgErr("APIMismatch")
                      /\ dkg_committee' = ConsumeParty(dkg_committee, [round |-> "done"])
                      /\ UNCHANGED dkg_output
             ELSE LET out == dkg_aggregate_proof_shares(dkg_committee, aggregated)
                  IN  /\ dkg_output' = out.message
                      /\ dkg_committee' = ConsumeParty(dkg_committee, out.party)
                      /\ UNCHANGED dkg_result
    /\ UNCHANGED <<dkg_party, dkg_message, dkg_shares, dkg_decommitment,
                   agg_vars, presign_vars, sign_vars, proof_vars, call>>

\* what can happen to the decommitment on its way (or what a cheating
\* centralized party sends): nothing, another public key share, another
\* randomness, another proof
DecommitmentTamperings ==
    {[kind |-> "none", value |-> 0]}
        \cup {[kind |-> "public_key_share", value |-> v] : v \in StatementGroup \cup {3}}
        \cup {[kind |-> "commitment_randomness", value |-> v] : v \in 0..1}
        \cup {[kind |-> "proof", value |-> 0]}

\* the decommitment round of the centralized party: it verifies the proof of
\* the decentralized party, decommits and holds the joint public key
DecommitmentProofVerificationOfSecretKeyShare ==
    /\ dkg_party.round = "decommitment"
    /\ dkg_output # <<>>
    /\ EnhancedVerify(dkg_output.encryption_of_secret_key_share_proof,
           "encryption_of_discrete_log", dkg_party.protocol_context,
           EncryptionOfDiscreteLogPublicParameters(PaillierModulus,
                                                   LanguagePublicParameters.generator),
           << [range_proof_commitment |-> dkg_output.range_proof_commitment,
               encryption_of_discrete_log |-> dkg_output.encryption_of_secret_key_share,
               base_by_discrete_log |-> dkg_output.public_key_share] >>)
    /\ \E t \in DecommitmentTamperings :
         LET sent == [public_key_share |-> dkg_party.public_key_share,
                      proof |-> dkg_party.knowledge_of_discrete_log_proof,
                      commitment_randomness |-> dkg_party.commitment_randomness]
         IN  dkg_decommitment' =
                 [tampering |-> t.kind,
                  sent |-> sent,
                  msg |-> IF t.kind = "none" THEN sent
                          ELSE IF t.kind = "proof"
                              THEN [sent EXCEPT !.proof.responses =
                                        [k \in Reps |-> ScalarAdd(@[k], 1)]]
                          ELSE [sent EXCEPT ![t.kind] = t.value]]
    /\ dkg_party' = ConsumeParty(dkg_party,
           [round |-> "done",
            secret_key_share |-> dkg_party.secret_key_share,
            public_key_share |-> dkg_party.public_key_share,
            public_key |-> JointPublicKey(dkg_party.public_key_share,
                                          dkg_output.public_key_share)])
    /\ UNCHANGED <<dkg_committee, dkg_message, dkg_shares, dkg_output, dkg_result,
                   agg_vars, presign_vars, sign_vars, proof_vars, call>>

\* the decommitment proof verification round of the decentralized party
VerifyDecommitmentAndProofOfCentralizedPartyPublicKeyShare ==
    /\ dkg_committee.round = "decommitment_proof_verification"
    /\ dkg_decommitment # <<>>
    /\ dkg_result' =
           verify_decommitment_and_proof_of_centralized_party_public_key_share(
               dkg_committee, dkg_decommitment.msg)
    /\ dkg_committee' = ConsumeParty(dkg_committee, [round |-> "done"])
    /\ UNCHANGED <<dkg_party, dkg_message, dkg_shares, dkg_output, dkg_decommitment,
                   agg_vars, presign_vars, sign_vars, proof_vars, call>>

NextDkg ==
    \/ SampleCommitAndProveSecretKeyShare
    \/ SampleSecretKeyShareAndInitializeProofAggregation
    \/ DkgAggregateProofShares
    \/ DecommitmentProofVerificationOfSecretKeyShare
    \/ VerifyDecommitmentAndProofOfCentralizedPartyPublicKeyShare

\* ------------------------------------------------------------------------
\* Sign: the decentralized parties
\* ------------------------------------------------------------------------
\* AffineXCoordinate::x of the group of order 3: the element reduced modulo
\* the scalar order (never zero)
AffineXCoordinate(element) == element % ScalarOrder

\* Eval(pk, f, ct_1, ct_2; eta): Enc(mask * q; randomness) added to the
\* linear combination of the ciphertexts
\* the sum, in the ciphertext group, of the ciphertexts scaled by their
\* coefficients
RECURSIVE LinearCombination(_, _)
LinearCombination(coefficients, ciphertexts) ==
    IF coefficients = <<>> THEN 1
    ELSE (Pow(Head(ciphertexts), Head(coefficients), CiphertextModulus)
            * LinearCombination(Tail(coefficients), Tail(ciphertexts))) % CiphertextModulus

\* faulty variant: the mask is encrypted as it is, not multiplied by q
evaluate_linear_combination_with_unscaled_mask(coefficients, ciphertexts, mask, randomness) ==
    (encrypt_with_randomness(mask, randomness)
        * LinearCombination(coefficients, ciphertexts)) % CiphertextModulus

evaluate_linear_combination_with_randomness(coefficients, ciphertexts, mask, randomness) ==
    (encrypt_with_randomness(mask * ScalarOrder, randomness)
        * LinearCombination(coefficients, ciphertexts)) % CiphertextModulus

\* the parties holding a share of the decryption key, and their shares: the
\* exponent 4 of decrypt, shared additively modulo the exponent 60 of the
\* ciphertext group
DecryptionKeyShares == <<7, 57>>

SignParties == DOMAIN DecryptionKeyShares

generate_decryption_share_semi_honest(decryption_key_share, ciphertext) ==
    Pow(ciphertext, decryption_key_share, CiphertextModulus)

\* combination of the decryption shares of all parties into the plaintext
combine_decryption_shares(decryption_shares) ==
    LET product == (decryption_shares[1] * decryption_shares[2]) % CiphertextModulus
    IN  (((product - 1) \div PaillierModulus) * 4) % PaillierModulus

\* an error (or, with the kind "None", no result yet) after the given number
\* of verified proofs
SignErr(kind, proofs_verified) ==
    [kind |-> kind, decryption_shares |-> <<>>, proofs_verified |-> proofs_verified]

SignOk(partial_signature_decryption_share, masked_nonce_decryption_share) ==
    [kind |-> "Ok",
     decryption_shares |->
         <<partial_signature_decryption_share, masked_nonce_decryption_share>>,
     proofs_verified |-> 3]

VerifyPublicNonceProof(self, msg) ==
    EnhancedVerify(msg.public_nonce_proof, "committment_of_discrete_log",
        self.protocol_context,
        [base |-> msg.public_nonce],
        << <<self.nonce_public_share, self.centralized_party_nonce_shares_commitment>> >>)

VerifyNonceShareByKeyShareProof(self, msg) ==
    EnhancedVerify(msg.nonce_share_by_key_share_proof,
        "discrete_log_ratio_of_committed_values",
        self.protocol_context,
        [base_by_discrete_log |-> self.centralized_party_public_key_share],
        << <<self.centralized_party_nonce_shares_commitment,
             msg.nonce_share_by_key_share_commitment>> >>)

\* the two coefficient commitments as the party decodes them: the closure
\* mapped over the two received values does not use its argument and
\* decodes the received nonce share by key share commitment both times
DecodeCoefficientCommitments(msg) ==
    LET received == <<msg.first_coefficient_commitment, msg.second_coefficient_commitment>>
    IN  [i \in DOMAIN received |-> msg.nonce_share_by_key_share_commitment]

\* faulty variant: the ciphertexts of the language are those the proof was
\* produced for, not the ones the party stores
VerifyEncryptedPartialSignatureProofForReceivedCiphertexts(self, msg, coefficient_commitments) ==
    /\ msg.encrypted_partial_signature_proof.language = "committed_linear_evaluation"
    /\ EnhancedVerify(msg.encrypted_partial_signature_proof, "committed_linear_evaluation",
         self.protocol_context,
         [encryption_modulus |-> self.encryption_scheme_public_parameters,
          ciphertexts |-> msg.encrypted_partial_signature_proof.public_parameters.ciphertexts],
         << <<msg.encrypted_partial_signature_range_proof_commitment,
              msg.encrypted_partial_signature, coefficient_commitments>> >>)

VerifyEncryptedPartialSignatureProof(self, msg, coefficient_commitments) ==
    EnhancedVerify(msg.encrypted_partial_signature_proof, "committed_linear_evaluation",
        self.protocol_context,
        [encryption_modulus |-> self.encryption_scheme_public_parameters,
         ciphertexts |-> <<self.encrypted_mask, self.encrypted_masked_key_share>>],
        << <<msg.encrypted_partial_signature_range_proof_commitment,
             msg.encrypted_partial_signature, coefficient_commitments>> >>)

\* faulty variant: the consistency of the coefficient commitments is not
\* looked at
CoefficientCommitmentsInconsistentIgnored(self, message, msg, coefficient_commitments) == FALSE

\* the condition under which CommitmentsHomomorphicEvaluation is returned
CoefficientCommitmentsInconsistent(self, message, msg, coefficient_commitments) ==
    LET nonce_x_coordinate == AffineXCoordinate(msg.public_nonce)
    IN  \/ coefficient_commitments[1] #
               GroupAdd(GroupScalarMul(msg.nonce_share_by_key_share_commitment,
                                       nonce_x_coordinate),
                        GroupScalarMul(self.centralized_party_nonce_shares_commitment,
                                       message))
        \/ coefficient_commitments[2] #
               GroupScalarMul(self.centralized_party_nonce_shares_commitment,
                              nonce_x_coordinate)

partially_decrypt_encrypted_signature_parts(self, message, msg) ==
    LET coefficient_commitments == DecodeCoefficientCommitments(msg)
    IN  IF ~VerifyPublicNonceProof(self, msg) THEN SignErr("Proofs", 0)
        ELSE IF ~GroupElementNew(msg.nonce_share_by_key_share_commitment)
            THEN SignErr("Group", 1)
        ELSE IF ~VerifyNonceShareByKeyShareProof(self, msg) THEN SignErr("Proofs", 1)
        ELSE IF ~AllGroupElements(coefficient_commitments) THEN SignErr("Group", 2)
        ELSE IF ~CiphertextNew(msg.encrypted_partial_signature) THEN SignErr("Group", 2)
        ELSE IF ~GroupElementNew(msg.encrypted_partial_signature_range_proof_commitment)
            THEN SignErr("Group", 2)
        ELSE IF ~VerifyEncryptedPartialSignatureProof(self, msg, coefficient_commitments)
            THEN SignErr("Proofs", 2)
        ELSE IF ~GroupElementNew(msg.public_nonce) THEN SignErr("Group", 3)
        ELSE IF CoefficientCommitmentsInconsistent(self, message, msg,
                                                   coefficient_commitments)
            THEN SignErr("CommitmentsHomomorphicEvaluation", 3)
        ELSE SignOk(
                 generate_decryption_share_semi_honest(self.decryption_key_share,
                                                       msg.encrypted_partial_signature),
                 generate_decryption_share_semi_honest(self.decryption_key_share,
                                                       self.encrypted_masked_nonce))

\* ------------------------------------------------------------------------
\* Sign: the session
\* ------------------------------------------------------------------------
\* the decentralized party object built from the outputs of DKG and presign
SignParty(party_id, secrets) ==
    [round |-> "sign",
     decryption_key_share |-> DecryptionKeyShares[party_id],
     protocol_context |-> ProtocolContext,
     encryption_scheme_public_parameters |-> PaillierModulus,
     public_key_share |->
         GroupScalarMul(LanguagePublicParameters.generator,
                        secrets.decentralized_secret_key_share),
     nonce_public_share |->
         GroupScalarMul(LanguagePublicParameters.generator,
                        secrets.decentralized_nonce_share),
     encrypted_mask |-> encrypt_with_randomness(secrets.mask, 2),
     encrypted_masked_key_share |->
         encrypt_with_randomness(secrets.mask * secrets.decentralized_secret_key_share, 2),
     encrypted_masked_nonce |->
         encrypt_with_randomness(secrets.mask * secrets.decentralized_nonce_share, 2),
     centralized_party_public_key_share |->
         GroupScalarMul(LanguagePublicParameters.generator, secrets.secret_key_share),
     centralized_party_nonce_shares_commitment |->
         PedersenCommit(secrets.nonce_share, secrets.commitment_randomness)]

SignInit ==
    \E secret_key_share \in ScalarGroup, decentralized_secret_key_share \in ScalarGroup,
       nonce_share \in NonZeroScalars, decentralized_nonce_share \in NonZeroScalars,
       mask \in NonZeroScalars, commitment_randomness \in 0..1 :
        /\ sign_secrets = [secret_key_share |-> secret_key_share,
                           decentralized_secret_key_share |-> decentralized_secret_key_share,
                           nonce_share |-> nonce_share,
                           decentralized_nonce_share |-> decentralized_nonce_share,
                           mask |-> mask,
                           commitment_randomness |-> commitment_randomness]
        /\ sign_party = [party_id \in SignParties |-> SignParty(party_id, sign_secrets)]
        /\ sign_message = <<>>
        /\ sign_result = [party_id \in SignParties |-> SignErr("None", 0)]

\* no sign session takes place
SignIdle ==
    /\ sign_secrets = <<>>
    /\ sign_party = [party_id \in SignParties |-> [round |-> "none"]]
    /\ sign_message = <<>>
    /\ sign_result = [party_id \in SignParties |-> SignErr("None", 0)]

\* the message of the centralized party.  It opens its nonce share
\* commitment to R, commits to nonce share times key share, evaluates the
\* encrypted partial signature and proves the three statements.  A party
\* that follows the protocol uses the coefficients r*k*x + m*k and r*k; a
\* "reusing" party uses k*x for both, committed to by the nonce share by key
\* share commitment.
evaluate_encrypted_partial_signature(secrets, self, message, behaviour, randomness) ==
    LET k == secrets.nonce_share
        public_nonce == GroupScalarMul(self.nonce_public_share, ScalarDivide(1, k))
        nonce_x_coordinate == AffineXCoordinate(public_nonce)
        kx == ScalarMulUint(k, secrets.secret_key_share)
        nonce_share_by_key_share_commitment == PedersenCommit(kx, randomness)
        coefficients ==
            IF behaviour = "honest"
            THEN <<ScalarAdd(ScalarMulUint(nonce_x_coordinate, kx),
                             ScalarMulUint(message, k)),
                   ScalarMulUint(nonce_x_coordinate, k)>>
            ELSE <<kx, kx>>
        coefficient_commitments ==
            IF behaviour = "honest"
            THEN <<PedersenCommit(coefficients[1],
                       ScalarAdd(ScalarMulUint(nonce_x_coordinate, randomness),
                                 ScalarMulUint(message, secrets.commitment_randomness))),
                   PedersenCommit(coefficients[2],
                       ScalarMulUint(nonce_x_coordinate, secrets.commitment_randomness))>>
            ELSE <<nonce_share_by_key_share_commitment,
                   nonce_share_by_key_share_commitment>>
        ciphertexts == <<self.encrypted_mask, self.encrypted_masked_key_share>>
        encrypted_partial_signature ==
            evaluate_linear_combination_with_randomness(coefficients, ciphertexts, 1, 2)
        range_proof_commitment == PedersenCommit(coefficients[1], coefficients[2])
    IN  [public_nonce |-> public_nonce,
         public_nonce_proof |->
             EnhancedProve("committment_of_discrete_log", self.protocol_context,
                 [base |-> public_nonce],
                 << <<self.nonce_public_share,
                      self.centralized_party_nonce_shares_commitment>> >>),
         nonce_share_by_key_share_commitment |-> nonce_share_by_key_share_commitment,
         nonce_share_by_key_share_proof |->
             EnhancedProve("discrete_log_ratio_of_committed_values", self.protocol_context,
                 [base_by_discrete_log |-> self.centralized_party_public_key_share],
                 << <<self.centralized_party_nonce_shares_commitment,
                      nonce_share_by_key_share_commitment>> >>),
         first_coefficient_commitment |-> coefficient_commitments[1],
         second_coefficient_commitment |-> coefficient_commitments[2],
         encrypted_partial_signature |-> encrypted_partial_signature,
         encrypted_partial_signature_range_proof_commitment |-> range_proof_commitment,
         encrypted_partial_signature_proof |->
             EnhancedProve("committed_linear_evaluation", self.protocol_context,
                 [encryption_modulus |-> self.encryption_scheme_public_parameters,
                  ciphertexts |-> ciphertexts],
                 << <<range_proof_commitment, encrypted_partial_signature,
                      coefficient_commitments>> >>)]

\* what can happen to the message on its way: nothing, a group element
\* replaced by another one or by a value outside the group, the ciphertext
\* replaced, a proof replaced by a proof of something else
SignTamperings ==
    {[kind |-> "none"]}
        \cup {[kind |-> "replace", field |-> f, value |-> v] :
                  f \in {"public_nonce", "nonce_share_by_key_share_commitment",
                         "first_coefficient_commitment", "second_coefficient_commitment",
                         "encrypted_partial_signature_range_proof_commitment"},
                  v \in StatementGroup \cup {3}}
        \cup {[kind |-> "replace", field |-> "encrypted_partial_signature", value |-> v] :
                  v \in {1, PaillierModulus}}
        \cup {[kind |-> "forge", field |-> f] :
                  f \in {"public_nonce_proof", "nonce_share_by_key_share_proof",
                         "encrypted_partial_signature_proof"}}

\* the given presign row and key and the ones next to them: the secrets
\* that differ from the given ones in at most one value
RowsAndKeys(secrets) ==
    {[secrets EXCEPT ![field] = value] :
         field \in {"secret_key_share", "decentralized_secret_key_share"},
         value \in ScalarGroup}
      \cup {[secrets EXCEPT ![field] = value] :
                field \in {"nonce_share", "decentralized_nonce_share", "mask"},
                value \in NonZeroScalars}
      \cup {[secrets EXCEPT !.commitment_randomness = value] : value \in 0..1}

\* the centralized party publishes its message for the message to sign; it
\* produces it for the presign row and key of the session or for another one
EvaluateEncryptedPartialSignature ==
    /\ sign_secrets # <<>>
    /\ sign_message = <<>>
    /\ \E message \in ScalarGroup, behaviour \in {"honest", "reusing"},
          randomness \in 0..1, t \in SignTamperings,
          produced_for \in RowsAndKeys(sign_secrets) :
         LET sent == evaluate_encrypted_partial_signature(produced_for,
                         SignParty(1, produced_for), message, behaviour, randomness)
         IN  /\ produced_for # sign_secrets => t.kind = "none"
             /\ sign_message' =
                 [message |-> message,
                  behaviour |-> behaviour,
                  tampering |-> t,
                  produced_for |-> produced_for,
                  msg |-> IF t.kind = "none" THEN sent
                          ELSE IF t.kind = "forge"
                              THEN [sent EXCEPT ![t.field] =
                                        EnhancedProve("none", ProtocolContext, <<>>, <<>>)]
                          ELSE [sent EXCEPT ![t.field] = t.value]]
    /\ UNCHANGED <<sign_secrets, sign_party, sign_result, agg_vars, presign_vars, dkg_vars, proof_vars, call>>

\* a decentralized party handles the message
PartiallyDecryptEncryptedSignatureParts ==
    /\ sign_message # <<>>
    /\ \E party_id \in SignParties :
         /\ sign_party[party_id].round = "sign"
         /\ sign_result' =
                [sign_result EXCEPT ![party_id] =
                     partially_decrypt_encrypted_signature_parts(
                         sign_party[party_id], sign_message.message, sign_message.msg)]
         /\ sign_party' =
                [sign_party EXCEPT ![party_id] =
                     ConsumeParty(sign_party[party_id], [round |-> "done"])]
    /\ UNCHANGED <<sign_secrets, sign_message, agg_vars, presign_vars, dkg_vars, proof_vars, call>>

NextSign ==
    \/ EvaluateEncryptedPartialSignature
    \/ PartiallyDecryptEncryptedSignatureParts

\* ------------------------------------------------------------------------
\* A batched Schnorr proof of a single prover
\* ------------------------------------------------------------------------
\* the witness group of a language
WitnessSpace(language_public_parameters) ==
    IF language_public_parameters.name = "Knowledge of Decommitment"
    THEN ScalarGroup \X ScalarGroup
    ELSE ScalarGroup

\* faulty variant: the response leaves the randomizer out
ProofProveUnmasked(protocol_context, language_public_parameters, witnesses, randomizers) ==
    LET statements ==
            [j \in DOMAIN witnesses |->
                Language_group_homomorphism(witnesses[j], language_public_parameters)]
        statement_masks ==
            [k \in Reps |->
                Language_group_homomorphism(randomizers[k], language_public_parameters)]
        challenges ==
            compute_challenges(statement_masks, Len(statements),
                setup_protocol(protocol_context, language_public_parameters, statements))
        zero == [k \in Reps |-> 0]
        responses ==
            IF language_public_parameters.name = "Knowledge of Decommitment"
            THEN [k \in Reps |->
                    <<ProveResponses(zero, [j \in DOMAIN witnesses |-> witnesses[j][1]],
                                     challenges)[k],
                      ProveResponses(zero, [j \in DOMAIN witnesses |-> witnesses[j][2]],
                                     challenges)[k]>>]
            ELSE ProveResponses(zero, witnesses, challenges)
    IN  [proof |-> ProofNew(statement_masks, responses), statements |-> statements]

\* statements s_j = phi(w_j), masks mask_k = phi(r_k), challenges from the
\* transcript of the statements and the masks, responses
\* z_k = r_k + sum_j c_{k,j} * w_j; in a product witness group the sum is
\* taken in every component
ProofProve(protocol_context, language_public_parameters, witnesses, randomizers) ==
    LET statements ==
            [j \in DOMAIN witnesses |->
                Language_group_homomorphism(witnesses[j], language_public_parameters)]
        statement_masks ==
            [k \in Reps |->
                Language_group_homomorphism(randomizers[k], language_public_parameters)]
        challenges ==
            compute_challenges(statement_masks, Len(statements),
                setup_protocol(protocol_context, language_public_parameters, statements))
        responses ==
            IF language_public_parameters.name = "Knowledge of Decommitment"
            THEN [k \in Reps |->
                    <<ProveResponses([i \in Reps |-> randomizers[i][1]],
                                     [j \in DOMAIN witnesses |-> witnesses[j][1]],
                                     challenges)[k],
                      ProveResponses([i \in Reps |-> randomizers[i][2]],
                                     [j \in DOMAIN witnesses |-> witnesses[j][2]],
                                     challenges)[k]>>]
            ELSE ProveResponses(randomizers, witnesses, challenges)
    IN  [proof |-> ProofNew(statement_masks, responses), statements |-> statements]

\* a prover holding a batch of witnesses of one of the languages
SchnorrInit ==
    \E language_public_parameters \in
            {LanguagePublicParameters, KnowledgeOfDecommitmentPublicParameters},
       batch_size \in 1..MaxBatch :
        \E witnesses \in SeqOf(WitnessSpace(language_public_parameters), batch_size) :
            schnorr = [round |-> "prove",
                       language_public_parameters |-> language_public_parameters,
                       witnesses |-> witnesses]

\* no proof is generated
SchnorrIdle == schnorr = [round |-> "none"]

\* the prover samples the randomizers and generates the proof
SchnorrProve ==
    /\ schnorr.round = "prove"
    /\ \E randomizers \in
            SeqOf(WitnessSpace(schnorr.language_public_parameters), REPETITIONS) :
         LET out == ProofProve(ProtocolContext, schnorr.language_public_parameters,
                               schnorr.witnesses, randomizers)
         IN  schnorr' = [round |-> "verify",
                         language_public_parameters |-> schnorr.language_public_parameters,
                         witnesses |-> schnorr.witnesses,
                         randomizers |-> randomizers,
                         statements |-> out.statements,
                         proof |-> out.proof]
    /\ UNCHANGED <<agg_vars, presign_vars, dkg_vars, sign_vars, call>>

\* what the verifier can be handed: the proof and the statements as they
\* were generated, or with one statement, one response or one statement mask
\* replaced by another element of its group
AlteredProofs(self) ==
    {[kind |-> "none", index |-> 0, statements |-> self.statements, proof |-> self.proof]}
    \cup {[kind |-> "statements", index |-> j,
           statements |-> [self.statements EXCEPT ![j] = value], proof |-> self.proof] :
             j \in DOMAIN self.statements, value \in StatementGroup}
    \cup {[kind |-> "response", index |-> k, statements |-> self.statements,
           proof |-> [self.proof EXCEPT !.responses[k] = value]] :
             k \in Reps, value \in WitnessSpace(self.language_public_parameters)}
    \cup {[kind |-> "statement_mask", index |-> k, statements |-> self.statements,
           proof |-> [self.proof EXCEPT !.statement_masks[k] = value]] :
             k \in Reps, value \in StatementGroup}

\* the verifier checks the proof it was handed against the statements it was
\* handed
SchnorrVerify ==
    /\ schnorr.round = "verify"
    /\ \E checked \in AlteredProofs(schnorr) :
         /\ checked.kind # "none" =>
                checked.statements # schnorr.statements \/ checked.proof # schnorr.proof
         /\ schnorr' = [round |-> "done",
                        language_public_parameters |-> schnorr.language_public_parameters,
                        witnesses |-> schnorr.witnesses,
                        randomizers |-> schnorr.randomizers,
                        statements |-> schnorr.statements,
                        proof |-> schnorr.proof,
                        checked |-> checked,
                        verified |-> ProofVerify(checked.proof, 1, ProtocolContext,
                                                 schnorr.language_public_parameters,
                                                 checked.statements)]
    /\ UNCHANGED <<agg_vars, presign_vars, dkg_vars, sign_vars, call>>

NextProof ==
    \/ SchnorrProve
    \/ SchnorrVerify

\* ------------------------------------------------------------------------
\* Calls of pure functions: a call and, once it has returned, its result
\* ------------------------------------------------------------------------
\* the plain languages and their enhanced wrappers
Languages ==
    {[kind |-> kind, enhanced |-> enhanced] :
        kind \in {"knowledge_of_discrete_log", "knowledge_of_decommitment"},
        enhanced \in BOOLEAN}

\* Language::NAME; the NAME of an enhanced wrapper is the NAME of the
\* language it wraps
LanguageNAME(language) ==
    IF language.kind = "knowledge_of_decommitment"
    THEN "Knowledge of Decommitment"
    ELSE "Knowledge of the Discrete Log"

\* the transcripts of two languages are started
TranscriptNewOfLanguages ==
    /\ call.function = "Transcript::new"
    /\ ~call.returned
    /\ call' = [function |-> call.function, arguments |-> call.arguments,
                returned |-> TRUE,
                result |-> [i \in 1..2 |-> TranscriptNew(LanguageNAME(call.arguments[i]))]]
    /\ UNCHANGED <<agg_vars, presign_vars, dkg_vars, sign_vars, proof_vars>>

\* ------------------------------------------------------------------------
\* The enhanced language: a language together with a commitment to the
\* decomposed witness under the commitment scheme of a range proof
\* ------------------------------------------------------------------------
\* Uint<LIMBS> of `bits` bits: a shift by the whole width or more gives zero
UintShl(value, shift, bits) ==
    IF shift >= bits THEN 0 ELSE (value * 2^shift) % 2^bits

UintShr(value, shift, bits) ==
    IF shift >= bits THEN 0 ELSE value \div 2^shift

\* Uint::<H>::from(&Uint<L>): the low limbs are kept, the high ones dropped
UintFrom(value, bits) == value % 2^bits

\* the scalar a Uint is converted into
ScalarFromUint(value, order) == value % order

\* the instantiation of DecomposableWitness for the scalars of ScalarGroup
\* (the widths are those of Uint<WITNESS_LIMBS> and of
\* Uint<COMMITMENT_SCHEME_MESSAGE_SPACE_SCALAR_LIMBS>)
ScalarPublicParameters == [order |-> ScalarOrder, WITNESS_BITS |-> 2, MESSAGE_BITS |-> 2]

RANGE_CLAIM_BITS == 1

\* Polynomial::evaluate: sum of coefficients[i] * x^(i-1) in the scalar group
RECURSIVE PolynomialEvaluate(_, _, _)
PolynomialEvaluate(coefficients, x, order) ==
    IF coefficients = <<>> THEN 0
    ELSE (Head(coefficients) + x * PolynomialEvaluate(Tail(coefficients), x, order)) % order

decompose(witness, public_parameters, RANGE_CLAIMS_PER_SCALAR, range_claim_bits) ==
    [i \in 1..RANGE_CLAIMS_PER_SCALAR |->
        UintFrom(
            UintShr(witness, (i - 1) * range_claim_bits, public_parameters.WITNESS_BITS)
                % (((UintShl(1, range_claim_bits, public_parameters.WITNESS_BITS)
                        + 2^public_parameters.WITNESS_BITS - 1)
                    % 2^public_parameters.WITNESS_BITS) + 1),
            public_parameters.MESSAGE_BITS)]

compose(decomposed_witness, public_parameters, range_claim_bits) ==
    LET delta == ScalarFromUint(UintShl(1, range_claim_bits, public_parameters.WITNESS_BITS),
                                public_parameters.order)
        scalars == [i \in 1..Len(decomposed_witness) |->
                       ScalarFromUint(
                           UintFrom(UintFrom(decomposed_witness[i], public_parameters.MESSAGE_BITS),
                                    public_parameters.WITNESS_BITS),
                           public_parameters.order)]
    IN  IF scalars = <<>>
        THEN [ok |-> FALSE, value |-> 0]
        ELSE [ok |-> TRUE, value |-> PolynomialEvaluate(scalars, delta, public_parameters.order)]

\* EnhanceableLanguage::compose_witness: the decomposed part of the witness
\* is composed, the unbounded part is taken as it is
compose_witness(decomposed_witness, unbounded_witness, language_public_parameters) ==
    LET composed == compose(decomposed_witness, ScalarPublicParameters, RANGE_CLAIM_BITS)
    IN  IF ~composed.ok THEN [ok |-> FALSE, value |-> 0]
        ELSE IF language_public_parameters.name = "Knowledge of Decommitment"
             THEN [ok |-> TRUE, value |-> <<composed.value, unbounded_witness>>]
             ELSE [ok |-> TRUE, value |-> composed.value]

\* Language::group_homomorphism with its failure: the generators of the
\* public parameters are instantiated first
LanguageGroupHomomorphismResult(witness, language_public_parameters) ==
    IF \/ language_public_parameters.generator \notin StatementGroup
       \/ /\ "randomness_generator" \in DOMAIN language_public_parameters
          /\ language_public_parameters.randomness_generator \notin StatementGroup
    THEN [ok |-> FALSE, value |-> 0]
    ELSE [ok |-> TRUE, value |-> Language_group_homomorphism(witness, language_public_parameters)]

\* RangeProof::CommitmentScheme::new
RangeProofCommitmentSchemeNew(commitment_scheme_public_parameters) ==
    /\ \A i \in DOMAIN commitment_scheme_public_parameters.message_generators :
           commitment_scheme_public_parameters.message_generators[i] \in StatementGroup
    /\ commitment_scheme_public_parameters.randomness_generator \in StatementGroup

\* the commitment of the range proof to a message of several elements
RECURSIVE RangeProofCommitMessage(_, _)
RangeProofCommitMessage(message_generators, message) ==
    IF message = <<>> THEN GroupNeutral
    ELSE GroupAdd(GroupScalarMul(Head(message_generators), Head(message)),
                  RangeProofCommitMessage(Tail(message_generators), Tail(message)))

\* the commitment is made to the parts cut down to the bits of a range claim
RangeProofCommitMasked(message, randomness, commitment_scheme_public_parameters) ==
    GroupAdd(RangeProofCommitMessage(commitment_scheme_public_parameters.message_generators,
                                     [i \in DOMAIN message |-> message[i] % 2^RANGE_CLAIM_BITS]),
             GroupScalarMul(commitment_scheme_public_parameters.randomness_generator, randomness))

RangeProofCommit(message, randomness, commitment_scheme_public_parameters) ==
    GroupAdd(RangeProofCommitMessage(commitment_scheme_public_parameters.message_generators, message),
             GroupScalarMul(commitment_scheme_public_parameters.randomness_generator, randomness))

enhanced_group_homomorphism(witness, enhanced_language_public_parameters) ==
    LET decomposed_witness ==
            [i \in DOMAIN witness.range_proof_commitment_message |->
                UintFrom(witness.range_proof_commitment_message[i], ScalarPublicParameters.MESSAGE_BITS)]
        language_witness ==
            compose_witness(decomposed_witness, witness.unbounded_witness,
                            enhanced_language_public_parameters.language_public_parameters)
        language_statement ==
            LanguageGroupHomomorphismResult(language_witness.value,
                            enhanced_language_public_parameters.language_public_parameters)
    IN  IF ~language_witness.ok THEN [ok |-> FALSE, value |-> <<0, 0>>]
        ELSE IF ~language_statement.ok THEN [ok |-> FALSE, value |-> <<0, 0>>]
        ELSE IF ~RangeProofCommitmentSchemeNew(
                    enhanced_language_public_parameters.range_proof_public_parameters)
             THEN [ok |-> FALSE, value |-> <<0, 0>>]
        ELSE [ok |-> TRUE,
              value |-> <<RangeProofCommit(witness.range_proof_commitment_message,
                                           witness.range_proof_commitment_randomness,
                                           enhanced_language_public_parameters.range_proof_public_parameters),
                          language_statement.value>>]

\* the elements of the power-of-two group the range claims live in
RangeClaimGroup == 0..(2^ScalarPublicParameters.MESSAGE_BITS - 1)

\* witnesses of the enhanced language with NUM_RANGE_CLAIMS range claims
EnhancedWitnesses(NUM_RANGE_CLAIMS) ==
    [range_proof_commitment_message : SeqOf(RangeClaimGroup, NUM_RANGE_CLAIMS),
     range_proof_commitment_randomness : ScalarGroup,
     unbounded_witness : ScalarGroup]

\* public parameters of the enhanced language, well-formed ones and ones
\* with a value that is no element of the statement group
EnhancedLanguagePublicParameters(NUM_RANGE_CLAIMS) ==
    [language_public_parameters :
        {LanguagePublicParameters, KnowledgeOfDecommitmentPublicParameters,
         [name |-> "Knowledge of the Discrete Log", generator |-> 3]},
     range_proof_public_parameters :
        {[message_generators |-> [i \in 1..NUM_RANGE_CLAIMS |-> IF i = 1 THEN 2 ELSE 4],
          randomness_generator |-> 4],
         [message_generators |-> [i \in 1..NUM_RANGE_CLAIMS |-> IF i = 1 THEN 2 ELSE 4],
          randomness_generator |-> 3]}]

EnhancedGroupHomomorphism ==
    /\ call.function = "EnhancedLanguage::group_homomorphism"
    /\ ~call.returned
    /\ call' = [function |-> call.function, arguments |-> call.arguments,
                returned |-> TRUE,
                result |-> enhanced_group_homomorphism(call.arguments[1], call.arguments[2])]
    /\ UNCHANGED <<agg_vars, presign_vars, dkg_vars, sign_vars, proof_vars>>

\* ------------------------------------------------------------------------
\* Addition of witnesses and of statements
\* ------------------------------------------------------------------------
\* power_of_two_moduli::GroupElement + GroupElement: wrapping addition
PowerOfTwoAdd(a, b, bits) == (a + b) % 2^bits

\* the witness group of the enhanced language is the direct product of the
\* message space of the range proof, its randomness space and the unbounded
\* witness space
EnhancedWitnessAdd(w1, w2) ==
    [range_proof_commitment_message |->
        [i \in DOMAIN w1.range_proof_commitment_message |->
            PowerOfTwoAdd(w1.range_proof_commitment_message[i],
                          w2.range_proof_commitment_message[i],
                          ScalarPublicParameters.MESSAGE_BITS)],
     range_proof_commitment_randomness |->
        ScalarAdd(w1.range_proof_commitment_randomness, w2.range_proof_commitment_randomness),
     unbounded_witness |-> ScalarAdd(w1.unbounded_witness, w2.unbounded_witness)]

\* well-formed public parameters of the enhanced knowledge of decommitment
EnhancedPublicParameters ==
    [language_public_parameters |-> KnowledgeOfDecommitmentPublicParameters,
     range_proof_public_parameters |->
        [message_generators |-> <<2, 4>>, randomness_generator |-> 4]]

\* the witnesses of a language
LanguageWitnesses(language) ==
    IF language = "enhanced" THEN EnhancedWitnesses(2)
    ELSE IF language = "knowledge_of_decommitment" THEN SeqOf(ScalarGroup, 2)
    ELSE ScalarGroup

LanguageWitnessAdd(language, w1, w2) ==
    IF language = "enhanced" THEN EnhancedWitnessAdd(w1, w2)
    ELSE IF language = "knowledge_of_decommitment"
         THEN <<ScalarAdd(w1[1], w2[1]), ScalarAdd(w1[2], w2[2])>>
    ELSE ScalarAdd(w1, w2)

LanguageStatementAdd(language, s1, s2) ==
    IF language = "enhanced" THEN <<GroupAdd(s1[1], s2[1]), GroupAdd(s1[2], s2[2])>>
    ELSE GroupAdd(s1, s2)

LanguageHomomorphism(language, witness) ==
    IF language = "enhanced"
    THEN enhanced_group_homomorphism(witness, EnhancedPublicParameters).value
    ELSE IF language = "knowledge_of_decommitment"
         THEN decommitment_group_homomorphism(witness, KnowledgeOfDecommitmentPublicParameters)
    ELSE group_homomorphism(witness, LanguagePublicParameters)

\* group_homomorphism is applied to two witnesses and to their sum
GroupHomomorphismOfSum ==
    /\ call.function = "Language::group_homomorphism"
    /\ ~call.returned
    /\ LET language == call.arguments[1]
           w1 == call.arguments[2]
           w2 == call.arguments[3]
       IN  call' = [function |-> call.function, arguments |-> call.arguments,
                    returned |-> TRUE,
                    result |-> [of_sum |-> LanguageHomomorphism(language,
                                               LanguageWitnessAdd(language, w1, w2)),
                                sum_of |-> LanguageStatementAdd(language,
                                               LanguageHomomorphism(language, w1),
                                               LanguageHomomorphism(language, w2))]]
    /\ UNCHANGED <<agg_vars, presign_vars, dkg_vars, sign_vars, proof_vars>>

\* ------------------------------------------------------------------------
\* Decomposition of a scalar into range claims and back
\* ------------------------------------------------------------------------
MaxBits == 3

\* orders of scalar groups of at most MaxBits bits
ScalarOrders == {3, 5, 7}

\* the number of bits of a positive number
RECURSIVE BitLength(_)
BitLength(n) == IF n = 0 THEN 0 ELSE 1 + BitLength(n \div 2)

\* instantiations of DecomposableWitness: the order of the scalar group with
\* a Uint<WITNESS_LIMBS> that holds it, and the width of the limbs
DecomposableScalars ==
    {pp \in [order : ScalarOrders, WITNESS_BITS : 1..MaxBits, MESSAGE_BITS : 1..MaxBits] :
        pp.WITNESS_BITS >= BitLength(pp.order - 1)}

\* a scalar is decomposed and the limbs are composed again
ComposeOfDecompose ==
    /\ call.function = "DecomposableWitness::compose"
    /\ ~call.returned
    /\ LET decomposed == decompose(call.arguments.witness, call.arguments.public_parameters,
                                   call.arguments.RANGE_CLAIMS_PER_SCALAR,
                                   call.arguments.range_claim_bits)
       IN  call' = [function |-> call.function, arguments |-> call.arguments,
                    returned |-> TRUE,
                    result |-> [decomposed |-> decomposed,
                                composed |-> compose(decomposed, call.arguments.public_parameters,
                                                     call.arguments.range_claim_bits)]]
    /\ UNCHANGED <<agg_vars, presign_vars, dkg_vars, sign_vars, proof_vars>>

\* ------------------------------------------------------------------------
\* The encryption scheme: its groups and calls of its functions
\* ------------------------------------------------------------------------
\* the plaintext group Z_N
PlaintextSpace == 0..(PaillierModulus - 1)

\* the randomness group, the invertible elements modulo N
RandomnessSpace == {r \in 1..(PaillierModulus - 1) : r % 3 # 0 /\ r % 5 # 0}

\* two encryptions, each followed by the decryption of its ciphertext
EncryptDecrypt ==
    /\ call.function = "encrypt_with_randomness"
    /\ ~call.returned
    /\ call' = [function |-> call.function, arguments |-> call.arguments,
                returned |-> TRUE,
                result |-> [i \in 1..2 |->
                    LET ciphertext == encrypt_with_randomness(call.arguments[i].plaintext,
                                                              call.arguments[i].randomness)
                    IN  [ciphertext |-> ciphertext, decrypted |-> decrypt(ciphertext)]]]
    /\ UNCHANGED <<agg_vars, presign_vars, dkg_vars, sign_vars, proof_vars>>

\* Uint<MASK_LIMBS>::random
MASK_BITS == 3

MaskSpace == 0..(2^MASK_BITS - 1)

\* ciphertexts to evaluate: encryptions of small plaintexts
EvaluatedCiphertexts == {encrypt_with_randomness(plaintext, 2) : plaintext \in 0..4}

\* sum of coefficients[i] * decrypt(ciphertexts[i]) over the integers
RECURSIVE PlaintextCombination(_, _)
PlaintextCombination(coefficients, ciphertexts) ==
    IF coefficients = <<>> THEN 0
    ELSE Head(coefficients) * decrypt(Head(ciphertexts))
            + PlaintextCombination(Tail(coefficients), Tail(ciphertexts))

\* the probabilistic evaluation: the mask and the randomness are sampled and
\* returned with the ciphertext of the deterministic evaluation
EvaluateLinearCombination ==
    /\ call.function = "evaluate_linear_combination"
    /\ ~call.returned
    /\ \E mask \in MaskSpace, randomness \in RandomnessSpace :
         call' = [function |-> call.function, arguments |-> call.arguments,
                  returned |-> TRUE,
                  result |-> [ok |-> TRUE, mask |-> mask, randomness |-> randomness,
                              ciphertext |->
                                  evaluate_linear_combination_with_randomness(
                                      call.arguments.coefficients, call.arguments.ciphertexts,
                                      mask, randomness)]]
    /\ UNCHANGED <<agg_vars, presign_vars, dkg_vars, sign_vars, proof_vars>>

\* ------------------------------------------------------------------------
\* Scalar multiplication in the power-of-two group and in a direct product
\* ------------------------------------------------------------------------
\* faulty variant: the product saturates instead of wrapping around
PowerOfTwoScalarMulSaturating(x, scalar, bits) ==
    IF x * scalar >= 2^bits THEN 2^bits - 1 ELSE x * scalar

\* wrapping_mul: the low limbs of the product, whatever the width of the scalar
PowerOfTwoScalarMul(x, scalar, bits) == (x * scalar) % 2^bits

PowerOfTwoDouble(x, bits) == PowerOfTwoAdd(x, x, bits)

\* the groups scalar multiplication is called in: the power-of-two group and
\* its direct product with the statement group
ProductGroups == {"power_of_two_moduli", "direct_product"}

ProductGroupElements(group) ==
    IF group = "direct_product" THEN RangeClaimGroup \X StatementGroup ELSE RangeClaimGroup

ProductGroupNeutral(group) ==
    IF group = "direct_product" THEN <<0, GroupNeutral>> ELSE 0

ProductGroupAdd(group, x, y) ==
    IF group = "direct_product"
    THEN <<PowerOfTwoAdd(x[1], y[1], ScalarPublicParameters.MESSAGE_BITS), GroupAdd(x[2], y[2])>>
    ELSE PowerOfTwoAdd(x, y, ScalarPublicParameters.MESSAGE_BITS)

ProductGroupScalarMul(group, x, scalar) ==
    IF group = "direct_product"
    THEN <<PowerOfTwoScalarMul(x[1], scalar, ScalarPublicParameters.MESSAGE_BITS),
           GroupScalarMul(x[2], scalar)>>
    ELSE PowerOfTwoScalarMul(x, scalar, ScalarPublicParameters.MESSAGE_BITS)

ProductGroupDouble(group, x) ==
    IF group = "direct_product"
    THEN <<PowerOfTwoDouble(x[1], ScalarPublicParameters.MESSAGE_BITS), GroupAdd(x[2], x[2])>>
    ELSE PowerOfTwoDouble(x, ScalarPublicParameters.MESSAGE_BITS)

\* an element is multiplied by two scalars, by their sum and by 0, 1 and 2
ScalarMul ==
    /\ call.function = "GroupElement::scalar_mul"
    /\ ~call.returned
    /\ LET group == call.arguments.group
           x == call.arguments.x
       IN  call' = [function |-> call.function, arguments |-> call.arguments,
                    returned |-> TRUE,
                    result |-> [by_a |-> ProductGroupScalarMul(group, x, call.arguments.a),
                                by_b |-> ProductGroupScalarMul(group, x, call.arguments.b),
                                by_sum |-> ProductGroupScalarMul(group, x,
                                               call.arguments.a + call.arguments.b),
                                by_0 |-> ProductGroupScalarMul(group, x, 0),
                                by_1 |-> ProductGroupScalarMul(group, x, 1),
                                by_2 |-> ProductGroupScalarMul(group, x, 2),
                                double |-> ProductGroupDouble(group, x),
                                neutral |-> ProductGroupNeutral(group)]]
    /\ UNCHANGED <<agg_vars, presign_vars, dkg_vars, sign_vars, proof_vars>>

\* ------------------------------------------------------------------------
\* Sampling in the power-of-two group
\* ------------------------------------------------------------------------
\* faulty variant: the random value is returned without the mask
PowerOfTwoSampleUnmasked(random, sampling_bit_size, bits) ==
    IF sampling_bit_size > bits THEN [ok |-> FALSE, value |-> 0]
    ELSE [ok |-> TRUE, value |-> random]

\* sample: the random Uint of `bits` bits is masked with MAX >> (BITS -
\* sampling_bit_size); the mask is a power of two less one, so the bitwise
\* and is the remainder modulo the mask plus one
PowerOfTwoSample(random, sampling_bit_size, bits) ==
    IF sampling_bit_size > bits THEN [ok |-> FALSE, value |-> 0]
    ELSE LET mask == UintShr(2^bits - 1, bits - sampling_bit_size, bits)
         IN  [ok |-> TRUE, value |-> random % (mask + 1)]

\* an element is sampled: the rng gives any value of the width
Sample ==
    /\ call.function = "GroupElement::sample"
    /\ ~call.returned
    /\ \E random \in 0..(2^call.arguments.BITS - 1) :
         call' = [function |-> call.function, arguments |-> call.arguments,
                  returned |-> TRUE,
                  result |-> [random |-> random,
                              sampled |-> PowerOfTwoSample(random,
                                              call.arguments.sampling_bit_size,
                                              call.arguments.BITS)]]
    /\ UNCHANGED <<agg_vars, presign_vars, dkg_vars, sign_vars, proof_vars>>

\* ------------------------------------------------------------------------
\* Presign: the nonce masking sessions of the decentralized party
\* ------------------------------------------------------------------------
\* the encryption randomness the party stored for the nonce share of a row
NonceEncryptionRandomness(i) == <<2, 4, 7, 8>>[i]

\* the parties of the encrypted masked nonces round: the nonce shares of
\* one to MaxBatch rows with the encryption randomness of each
MaskedNoncesParties ==
    UNION {{[shares_of_signature_nonce_shares_witnesses |-> nonces,
             shares_of_signature_nonce_shares_encryption_randomness |->
                 [i \in 1..rows |-> NonceEncryptionRandomness(i)]] :
               nonces \in SeqOf(NonZeroScalars, rows)} : rows \in 1..MaxBatch}

\* statements of the encryption-of-tuple language: the encryption of the
\* multiplicand (the mask) and the encryption of the product
MaskStatements ==
    UNION {{[i \in 1..n |->
                <<encrypt_with_randomness(masks[i], 2),
                  EvaluateMaskedKeyShare(encrypt_with_randomness(1, 2), masks[i], 2)>>] :
               masks \in SeqOf(NonZeroScalars, n)} : n \in 0..MaxBatch}

\* statements of the encryption-of-discrete-log language
NonceStatements ==
    {[i \in 1..n |-> <<encrypt_with_randomness(1, 2), 2>>] : n \in 0..MaxBatch}

\* one session per element of the zip of the encrypted masks, the nonce
\* shares, their encryption randomness and the batch_size fresh randomness
\* values: the language public parameters hold the encrypted mask, the
\* witness the other three
initialize_proof_aggregation_sessions(self, masks_and_encrypted_masked_key_share, encrypted_nonce_shares_and_public_shares, masked_nonce_encryption_randomness) ==
    LET batch_size == Len(encrypted_nonce_shares_and_public_shares)
        encrypted_masks == [i \in DOMAIN masks_and_encrypted_masked_key_share |->
                               masks_and_encrypted_masked_key_share[i][1]]
        sessions == Min(Min(Len(encrypted_masks),
                            Len(self.shares_of_signature_nonce_shares_witnesses)),
                        Min(Len(self.shares_of_signature_nonce_shares_encryption_randomness),
                            batch_size))
    IN  [kind |-> "Ok",
         sessions |->
            [i \in 1..sessions |->
                [language_public_parameters |->
                     EncryptionOfTuplePublicParameters(PaillierModulus, encrypted_masks[i]),
                 witnesses |->
                     << <<self.shares_of_signature_nonce_shares_witnesses[i],
                          self.shares_of_signature_nonce_shares_encryption_randomness[i],
                          masked_nonce_encryption_randomness[i]>> >>]]]

\* a call of initialize_proof_aggregation with the randomness the rng gives
InitializeProofAggregation ==
    /\ call.function = "initialize_proof_aggregation"
    /\ ~call.returned
    /\ \E masked_nonce_encryption_randomness \in
            SeqOf({2, 4}, Len(call.arguments.encrypted_nonce_shares_and_public_shares)) :
         call' = [function |-> call.function, arguments |-> call.arguments,
                  returned |-> TRUE,
                  result |-> [sampled |-> masked_nonce_encryption_randomness,
                                returns |->
                                    initialize_proof_aggregation_sessions(
                                        call.arguments.self,
                                        call.arguments.masks_and_encrypted_masked_key_share,
                                        call.arguments.encrypted_nonce_shares_and_public_shares,
                                        masked_nonce_encryption_randomness)]]
    /\ UNCHANGED <<agg_vars, presign_vars, dkg_vars, sign_vars, proof_vars>>

\* the calls a session of pure functions starts with
CallInit ==
    \/ \E L1 \in Languages, L2 \in Languages :
         call = [function |-> "Transcript::new", arguments |-> <<L1, L2>>,
                 returned |-> FALSE]
    \/ \E NUM_RANGE_CLAIMS \in {0, 2} :
         \E witness \in EnhancedWitnesses(NUM_RANGE_CLAIMS),
            public_parameters \in EnhancedLanguagePublicParameters(NUM_RANGE_CLAIMS) :
           call = [function |-> "EnhancedLanguage::group_homomorphism",
                   arguments |-> <<witness, public_parameters>>, returned |-> FALSE]
    \/ \E language \in {"knowledge_of_discrete_log", "knowledge_of_decommitment", "enhanced"} :
         \E w1 \in LanguageWitnesses(language), w2 \in LanguageWitnesses(language) :
           call = [function |-> "Language::group_homomorphism",
                   arguments |-> <<language, w1, w2>>, returned |-> FALSE]
    \/ \E public_parameters \in DecomposableScalars :
         \E witness \in 0..(public_parameters.order - 1),
            RANGE_CLAIMS_PER_SCALAR \in 1..MaxBits, range_claim_bits \in 1..(MaxBits + 1) :
           call = [function |-> "DecomposableWitness::compose",
                   arguments |-> [witness |-> witness, public_parameters |-> public_parameters,
                                  RANGE_CLAIMS_PER_SCALAR |-> RANGE_CLAIMS_PER_SCALAR,
                                  range_claim_bits |-> range_claim_bits],
                   returned |-> FALSE]
    \/ \E first \in [plaintext : PlaintextSpace, randomness : RandomnessSpace],
          second \in [plaintext : PlaintextSpace, randomness : RandomnessSpace] :
         /\ first.plaintext = second.plaintext \/ first.randomness = second.randomness
         /\ call = [function |-> "encrypt_with_randomness",
                    arguments |-> <<first, second>>, returned |-> FALSE]
    \/ \E DIMENSION \in 0..2 :
         \E coefficients \in SeqOf(ScalarGroup, DIMENSION),
            ciphertexts \in SeqOf(EvaluatedCiphertexts, DIMENSION) :
           call = [function |-> "evaluate_linear_combination",
                   arguments |-> [coefficients |-> coefficients, ciphertexts |-> ciphertexts],
                   returned |-> FALSE]
    \/ \E group \in ProductGroups :
         \E x \in ProductGroupElements(group), a \in 0..(2^MaxBits - 1), b \in 0..(2^MaxBits - 1) :
           call = [function |-> "GroupElement::scalar_mul",
                   arguments |-> [group |-> group, x |-> x, a |-> a, b |-> b],
                   returned |-> FALSE]
    \/ \E BITS \in 1..MaxBits, sampling_bit_size \in 0..(MaxBits + 1) :
         call = [function |-> "GroupElement::sample",
                 arguments |-> [BITS |-> BITS, sampling_bit_size |-> sampling_bit_size],
                 returned |-> FALSE]
    \/ \E self \in MaskedNoncesParties, masks_and_encrypted_masked_key_share \in MaskStatements,
          encrypted_nonce_shares_and_public_shares \in NonceStatements :
         call = [function |-> "initialize_proof_aggregation",
                 arguments |->
                     [self |-> self,
                      masks_and_encrypted_masked_key_share |->
                          masks_and_encrypted_masked_key_share,
                      encrypted_nonce_shares_and_public_shares |->
                          encrypted_nonce_shares_and_public_shares],
                 returned |-> FALSE]

\* no pure function is called
CallIdle == call = [function |-> "none"]

NextCall ==
    \/ TranscriptNewOfLanguages
    \/ EnhancedGroupHomomorphism
    \/ GroupHomomorphismOfSum
    \/ ComposeOfDecompose
    \/ EncryptDecrypt
    \/ EvaluateLinearCombination
    \/ ScalarMul
    \/ Sample
    \/ InitializeProofAggregation

\* ------------------------------------------------------------------------
\* All sessions: one of them takes place
\* ------------------------------------------------------------------------
Init ==
    \/ AggInit /\ PresignIdle /\ DkgIdle /\ SignIdle /\ SchnorrIdle /\ CallIdle
    \/ AggIdle /\ PresignInit /\ DkgIdle /\ SignIdle /\ SchnorrIdle /\ CallIdle
    \/ AggIdle /\ PresignIdle /\ DkgInit /\ SignIdle /\ SchnorrIdle /\ CallIdle
    \/ AggIdle /\ PresignIdle /\ DkgIdle /\ SignInit /\ SchnorrIdle /\ CallIdle
    \/ AggIdle /\ PresignIdle /\ DkgIdle /\ SignIdle /\ SchnorrInit /\ CallIdle
    \/ AggIdle /\ PresignIdle /\ DkgIdle /\ SignIdle /\ SchnorrIdle /\ CallInit

Next == NextAgg \/ NextPresign \/ NextDkg \/ NextSign \/ NextProof \/ NextCall

Spec == Init /\ [][Next]_vars

\* the aggregation session alone
InitAgg == AggInit /\ PresignIdle /\ DkgIdle /\ SignIdle /\ SchnorrIdle /\ CallIdle

SpecAgg == InitAgg /\ [][NextAgg]_vars

\* the caller that restarts aggregation sessions alone; a session that can
\* be run is run, and a result that has arrived is acted upon: weak
\* fairness of both actions. RunAggregationSession is enabled exactly in
\* the phase "session" (every party sends some share), and its fairness
\* is written with this enabling condition
InitRestart == RestartInit /\ PresignIdle /\ DkgIdle /\ SignIdle /\ SchnorrIdle /\ CallIdle

SpecRestart ==
    /\ InitRestart
    /\ [][NextRestart]_vars
    /\ ([]<>(restart.phase # "session") \/ []<><<RunAggregationSession>>_vars)
    /\ WF_vars(RemoveNamedPartiesAndRestart)

\* the presign session alone
InitPresign == AggIdle /\ PresignInit /\ DkgIdle /\ SignIdle /\ SchnorrIdle /\ CallIdle

SpecPresign == InitPresign /\ [][NextPresign]_vars

\* the DKG session alone
InitDkg == AggIdle /\ PresignIdle /\ DkgInit /\ SignIdle /\ SchnorrIdle /\ CallIdle

SpecDkg == InitDkg /\ [][NextDkg]_vars

\* the sign session alone
InitSign == AggIdle /\ PresignIdle /\ DkgIdle /\ SignInit /\ SchnorrIdle /\ CallIdle

SpecSign == InitSign /\ [][NextSign]_vars

\* the proof of a single prover alone
InitProof == AggIdle /\ PresignIdle /\ DkgIdle /\ SignIdle /\ SchnorrInit /\ CallIdle

SpecProof == InitProof /\ [][NextProof]_vars

\* the calls of pure functions alone
InitCall == AggIdle /\ PresignIdle /\ DkgIdle /\ SignIdle /\ SchnorrIdle /\ CallInit

SpecCall == InitCall /\ [][NextCall]_vars

\* ------------------------------------------------------------------------
\* Properties of the aggregation round
\* ------------------------------------------------------------------------
AggregationDone == party.round = "done"

ExpectedParties == party.previous_round_party_ids

MissingParties == ExpectedParties \ DOMAIN proof_shares

IsValidShare(proof_share) == \A k \in Reps : proof_share[k] \in ScalarGroup

InvalidParties ==
    {p \in ExpectedParties \cap DOMAIN proof_shares : ~IsValidShare(proof_shares[p])}

\* the expected parties whose share is well-formed but is not the share the
\* protocol prescribes
CorruptingParties ==
    {p \in ExpectedParties \cap DOMAIN proof_shares :
        IsValidShare(proof_shares[p]) /\ proof_shares[p] # honest_shares[p]}

\* ids in the map that are the local party's own or of a party that did not
\* take part in the previous round
DiscardedParties ==
    {p \in DOMAIN proof_shares : p = party.party_id \/ p \notin ExpectedParties}

AllSharesHonest ==
    /\ MissingParties = {}
    /\ \A p \in ExpectedParties : proof_shares[p] = honest_shares[p]

RECURSIVE ScalarSum(_, _)
ScalarSum(f, S) ==
    IF S = {} THEN 0
    ELSE LET p == CHOOSE x \in S : TRUE
         IN  (f[p] + ScalarSum(f, S \ {p})) % ScalarOrder

\* C1: when every party follows the protocol, aggregate_proof_shares returns
\* Ok at the local party (any party of the session, any number of parties and
\* any batch size within the bounds) and the returned proof verifies against
\* the returned statements.
C1_HonestSessionAggregates ==
    (AggregationDone /\ AllSharesHonest) =>
        /\ result.kind = "Ok"
        /\ ProofVerify(result.proof, Cardinality(ExpectedParties) + 1, party.protocol_context,
                       party.language_public_parameters, result.statements)

C1_Witness ==
    /\ AggregationDone
    /\ AllSharesHonest
    /\ party.number_of_parties = 3
    /\ Len(party.aggregated_statements) = 2
    /\ result.kind = "Ok"

\* C2: if every expected party sent a well-formed share and exactly one of
\* them sent a share that is not its honest response, the call returns
\* ProofShareVerification and the list contains that party.
C2_CulpritIsListed ==
    (/\ AggregationDone
     /\ MissingParties = {}
     /\ InvalidParties = {}
     /\ Cardinality(CorruptingParties) = 1) =>
        /\ result.kind = "ProofShareVerification"
        /\ CorruptingParties \subseteq result.ids

\* C3: with one corrupted share among three or more parties the
\* ProofShareVerification list is exactly the corrupting party.
C3_OnlyCulpritIsListed ==
    (/\ AggregationDone
     /\ party.number_of_parties >= 3
     /\ MissingParties = {}
     /\ InvalidParties = {}
     /\ Cardinality(CorruptingParties) = 1
     /\ result.kind = "ProofShareVerification") =>
        result.ids = CorruptingParties

\* C4: UnresponsiveParties is returned exactly when a party of the previous
\* round has no entry in the map; its list is exactly the set of those
\* parties and no proof is produced.
C4_UnresponsivePartiesExact ==
    AggregationDone =>
        /\ MissingParties # {} => result = Err("UnresponsiveParties", MissingParties)
        /\ MissingParties = {} => result.kind # "UnresponsiveParties"

C4_Witness ==
    /\ AggregationDone
    /\ Cardinality(MissingParties) = 1
    /\ Cardinality(ExpectedParties) = 2
    /\ result.kind = "UnresponsiveParties"

\* C5: an entry keyed by the local party's own id or by a party that did not
\* take part in the previous round is discarded: the result is the result of
\* the call without the entry, and such an id is never reported.
C5_LateJoinersDiscarded ==
    AggregationDone =>
        /\ \A e \in DiscardedParties :
              LET without == Restrict(proof_shares, DOMAIN proof_shares \ {e})
              IN  \A order \in IterationOrders(DOMAIN FilterProofShares(party, without)) :
                      aggregate_proof_shares(party, without, order) = result
        /\ result.ids \cap DiscardedParties = {}

C5_Witness ==
    /\ AggregationDone
    /\ party.party_id \in DOMAIN proof_shares
    /\ \E e \in DOMAIN proof_shares :
          e \notin ExpectedParties /\ e # party.party_id /\ ~IsValidShare(proof_shares[e])
    /\ ExpectedParties # {}
    /\ result.kind = "Ok"

\* C6: InvalidProofShare is returned exactly when no expected party is
\* missing and some share does not decode, and lists exactly those parties;
\* a missing party takes priority over it, and ProofShareVerification is
\* only returned when all shares are present and decode.
C6_InvalidProofShareExact ==
    AggregationDone =>
        /\ (MissingParties = {} /\ InvalidParties # {}) =>
               result = Err("InvalidProofShare", InvalidParties)
        /\ result.kind = "InvalidProofShare" => (MissingParties = {} /\ InvalidParties # {})
        /\ result.kind = "ProofShareVerification" =>
               (MissingParties = {} /\ InvalidParties = {})
        /\ result.kind \in {"Ok", "UnresponsiveParties", "InvalidProofShare",
                            "ProofShareVerification"}

C6_Witness ==
    /\ AggregationDone
    /\ MissingParties = {}
    /\ Cardinality(InvalidParties) = 1
    /\ Cardinality(ExpectedParties) = 2
    /\ CorruptingParties # {}
    /\ result.kind = "InvalidProofShare"

\* C7: the aggregated response is the local response plus the sum of the
\* responses of all the other parties, whatever the order in which the map
\* is iterated; so are the proof and the outcome.
C7_AggregationOrderIndependent ==
    (AggregationDone /\ MissingParties = {} /\ InvalidParties = {}) =>
        LET shares == FilterProofShares(party, proof_shares)
        IN  \A order \in IterationOrders(DOMAIN shares) :
               /\ \A k \in Reps :
                      FoldResponses(party.responses, shares, order)[k]
                          = (party.responses[k]
                               + ScalarSum([p \in DOMAIN shares |-> shares[p][k]],
                                           DOMAIN shares)) % ScalarOrder
               /\ aggregate_proof_shares(party, proof_shares, order) = result
               /\ result.kind = "Ok" =>
                      result.proof.responses = FoldResponses(party.responses, shares, order)

C7_Witness ==
    /\ AggregationDone
    /\ Cardinality(ExpectedParties) = 2
    /\ MissingParties = {}
    /\ InvalidParties = {}
    /\ \E p, o \in ExpectedParties : proof_shares[p] # proof_shares[o]
    /\ result.kind = "Ok"

\* ------------------------------------------------------------------------
\* Properties of the round transitions
\* ------------------------------------------------------------------------
\* the position of a round in its protocol
RoundRank(round) ==
    CASE round = "none" -> 0
      [] round = "commitment" -> 1
      [] round = "decommitment" -> 2
      [] round = "proof_verification" -> 2
      [] round = "proof_share" -> 3
      [] round = "aggregation" -> 4
      [] round = "encryption_of_secret_key_share" -> 1
      [] round = "proof_aggregation" -> 2
      [] round = "decommitment_proof_verification" -> 3
      [] round = "sign" -> 1
      [] round = "done" -> 5

\* the party objects of all sessions
PartyObjects ==
    <<party, cparty, dkg_party, dkg_committee>> \o sign_party

\* C8: every step of a session is a round performed by one party: it leaves
\* that party in a strictly later round (the round it was in cannot be
\* performed again) and touches no other party.
C8_RoundsStrictlyIncrease ==
    [][\/ \E i \in DOMAIN PartyObjects :
             /\ RoundRank(PartyObjects'[i].round) > RoundRank(PartyObjects[i].round)
             /\ \A j \in DOMAIN PartyObjects \ {i} : PartyObjects'[j] = PartyObjects[j]
       \* the messages of the counterparty arrive, a proof is generated or checked,
    \* a pure function returns
       \/ /\ \/ cparty.round = "proof_verification" /\ honest_output' # honest_output
             \/ sign_message = <<>> /\ sign_message' # <<>>
             \/ schnorr' # schnorr
             \/ call' # call
          /\ PartyObjects' = PartyObjects]_vars

C8_Witness ==
    \/ party.round = "done" /\ result # NoResult
    \/ cparty.round = "done" /\ presign_result # NoPresignResult
    \/ dkg_party.round = "decommitment" /\ dkg_message \in 0..63
    \/ dkg_committee.round = "decommitment_proof_verification" /\ dkg_output # <<>>
    \/ \E party_id \in SignParties :
          sign_party[party_id].round = "done" /\ sign_result[party_id].kind # "None"

\* ------------------------------------------------------------------------
\* Properties of the presign proof verification round
\* ------------------------------------------------------------------------
PresignDone == cparty.round = "done"

BatchSize == Len(cparty.signature_nonce_shares_and_commitment_randomnesses)

\* every vector the two proofs are about has an entry for every row
RowsPresent ==
    \A f \in VectorFields : Len(output[f]) >= BatchSize

\* the statement of row i of each proof, read off the output by index
TupleRow(i) ==
    <<output.key_share_masking_range_proof_commitments[i],
      <<output.encrypted_masks[i], output.encrypted_masked_key_shares[i]>> >>

DiscreteLogRow(i) ==
    <<output.nonce_sharing_range_proof_commitments[i],
      <<output.encrypted_nonces[i], output.nonce_public_shares[i]>> >>

\* the number of rows each proof is verified for: the rows that have an
\* entry in each of the three vectors its statements are read from
TupleRowCount ==
    Min(Len(output.key_share_masking_range_proof_commitments),
        Min(Len(output.encrypted_masks), Len(output.encrypted_masked_key_shares)))

DiscreteLogRowCount ==
    Min(Len(output.nonce_sharing_range_proof_commitments),
        Min(Len(output.encrypted_nonces), Len(output.nonce_public_shares)))

\* C9: verify_presign_output returns Ok only if the encryption-of-tuple
\* proof verifies for the rows (mask, masked key share) under parameters
\* holding the party's own encrypted key share and the
\* encryption-of-discrete-log proof verifies for the rows (encrypted nonce,
\* nonce public share) under the generator; an output in which an entry was
\* swapped with that of another row or replaced after the proofs were made
\* is rejected and no Presign is emitted.
C9_OkOnlyIfBothProofsVerify ==
    PresignDone =>
        /\ presign_result.kind = "Ok" =>
              /\ EnhancedVerify(output.masks_and_encrypted_masked_key_share_proof,
                     "Encryption of a Tuple", cparty.protocol_context,
                     [encryption_modulus |-> PaillierModulus,
                      ciphertext |-> cparty.encrypted_decentralized_party_secret_key_share],
                     [i \in 1..TupleRowCount |-> TupleRow(i)])
              /\ EnhancedVerify(output.encrypted_nonce_shares_and_public_shares_proof,
                     "Encryption of a Discrete Log", cparty.protocol_context,
                     [encryption_modulus |-> PaillierModulus, generator |-> 2],
                     [i \in 1..DiscreteLogRowCount |-> DiscreteLogRow(i)])
        /\ (tampering.kind \in {"swap", "replace"} /\ output # honest_output) =>
              /\ presign_result.kind \notin {"Ok", "None"}
              /\ presign_result.presigns = <<>>

\* an entry of the nonce public shares was swapped between two rows of an
\* output that would have been accepted
C9_Witness ==
    /\ PresignDone
    /\ tampering.kind = "swap"
    /\ tampering.field = "nonce_public_shares"
    /\ output # honest_output
    /\ verify_presign_output(cparty, honest_output).kind = "Ok"
    /\ presign_result.kind = "Proofs"

\* the number of rows of the output: the entries of a vector a Presign row
\* is made of
RowCounts ==
    {Len(output.encrypted_masks), Len(output.encrypted_masked_key_shares),
     Len(output.nonce_public_shares)}

\* C10: if the number of rows of the output differs from the number of
\* nonce shares sampled in the commitment round, the call fails with
\* InvalidParameters, no proof has been verified and no Presign is emitted;
\* on success there is exactly one Presign per sampled nonce share.
C10_BatchSizesMatch ==
    PresignDone =>
        /\ RowCounts # {BatchSize} => presign_result = PresignErr("InvalidParameters", 0)
        /\ presign_result.kind = "Ok" =>
              /\ Len(presign_result.presigns) = BatchSize
              /\ \A i \in 1..BatchSize :
                    /\ presign_result.presigns[i].nonce_share =
                           cparty.signature_nonce_shares_and_commitment_randomnesses[i][1]
                    /\ presign_result.presigns[i].commitment_randomness =
                           cparty.signature_nonce_shares_and_commitment_randomnesses[i][2]

C10_Witness ==
    /\ PresignDone
    /\ BatchSize = 2
    /\ Len(honest_output.encrypted_masks) = 2
    /\ Len(output.nonce_public_shares) = 1
    /\ presign_result.kind = "InvalidParameters"

\* ------------------------------------------------------------------------
\* Properties of the presign rows of the two sides
\* ------------------------------------------------------------------------
\* C11: after a successful presign run both sides hold the same number of
\* rows, and row by row the nonce public share, the encrypted mask and the
\* encrypted masked key share of the two sides are equal.
C11_PresignRowsMatch ==
    (PresignDone /\ presign_result.kind = "Ok") =>
        /\ Len(presign_result.presigns) = Len(dec_presign.presigns)
        /\ \A i \in DOMAIN presign_result.presigns :
              LET centralized == presign_result.presigns[i]
                  decentralized == dec_presign.presigns[i]
              IN  /\ centralized.decentralized_party_nonce_public_share =
                         decentralized.nonce_public_share
                  /\ centralized.encrypted_mask = decentralized.mask_encryption
                  /\ centralized.encrypted_masked_key_share =
                         decentralized.masked_key_share_encryption

C11_Witness ==
    /\ PresignDone
    /\ presign_result.kind = "Ok"
    /\ Len(presign_result.presigns) = 2
    /\ presign_result.presigns[1].encrypted_mask # presign_result.presigns[2].encrypted_mask
    /\ presign_result.presigns[1].decentralized_party_nonce_public_share #
           presign_result.presigns[2].decentralized_party_nonce_public_share

\* C12: in every presign row of the decentralized party the decryption of
\* the masked nonce divided, modulo the group order, by the decryption of
\* the mask is the nonce share of that row, whose public share is the nonce
\* public share of that row.
C12_MaskedNonceOfSameRow ==
    dec_presign # <<>> =>
        \A i \in DOMAIN dec_presign.presigns :
            LET row == dec_presign.presigns[i]
                k == ScalarDivide(decrypt(row.masked_nonce_encryption) % ScalarOrder,
                                  decrypt(row.mask_encryption) % ScalarOrder)
            IN  /\ k = dec_presign.shares_of_signature_nonce_shares_witnesses[i]
                /\ group_homomorphism(k, LanguagePublicParameters) = row.nonce_public_share

C12_Witness ==
    /\ dec_presign # <<>>
    /\ Len(dec_presign.presigns) = 2
    /\ dec_presign.masks[1] # dec_presign.masks[2]
    /\ dec_presign.shares_of_signature_nonce_shares_witnesses[1] #
           dec_presign.shares_of_signature_nonce_shares_witnesses[2]

\* ------------------------------------------------------------------------
\* Properties of the decentralized sign party
\* ------------------------------------------------------------------------
SignDone(party_id) == sign_party[party_id].round = "done"

\* the right-hand sides of the two equations of the consistency check
ExpectedCoefficientCommitments(self, message, msg) ==
    LET nonce_x_coordinate == AffineXCoordinate(msg.public_nonce)
    IN  <<GroupAdd(GroupScalarMul(msg.nonce_share_by_key_share_commitment,
                                  nonce_x_coordinate),
                   GroupScalarMul(self.centralized_party_nonce_shares_commitment, message)),
          GroupScalarMul(self.centralized_party_nonce_shares_commitment,
                         nonce_x_coordinate)>>

\* C13: a message is accepted only if the first coefficient commitment it
\* carries equals r * C_kx + m * C_k and the second one equals r * C_k.
C13_ReceivedCoefficientCommitmentsChecked ==
    \A party_id \in SignParties :
        (SignDone(party_id) /\ sign_result[party_id].kind = "Ok") =>
            LET msg == sign_message.msg
                expected == ExpectedCoefficientCommitments(
                                SignParty(party_id, sign_secrets), sign_message.message, msg)
            IN  /\ msg.first_coefficient_commitment = expected[1]
                /\ msg.second_coefficient_commitment = expected[2]

HonestSignSession ==
    /\ sign_message # <<>>
    /\ sign_message.behaviour = "honest"
    /\ sign_message.produced_for = sign_secrets
    /\ sign_message.tampering.kind = "none"

\* ECDSA verification of (r, s) on the message under the public key
EcdsaVerify(message, r, s, public_key) ==
    /\ r \in NonZeroScalars
    /\ s \in NonZeroScalars
    /\ LET w == ScalarDivide(1, s)
           point == GroupAdd(
                        GroupScalarMul(LanguagePublicParameters.generator,
                                       ScalarMulUint(message, w)),
                        GroupScalarMul(public_key, ScalarMulUint(r, w)))
       IN  /\ point # GroupNeutral
           /\ AffineXCoordinate(point) = r

\* C15: in a session that follows the protocol every party returns its
\* shares, and the shares combine to a partial signature and a masked nonce
\* whose quotient s makes (r, s) an ECDSA signature of the message under the
\* joint public key.
C15_HonestSignatureVerifies ==
    (HonestSignSession /\ \A party_id \in SignParties : SignDone(party_id)) =>
        /\ \A party_id \in SignParties : sign_result[party_id].kind = "Ok"
        /\ LET self == SignParty(1, sign_secrets)
               partial_signature ==
                   combine_decryption_shares(
                       [party_id \in SignParties |->
                            sign_result[party_id].decryption_shares[1]])
               masked_nonce ==
                   combine_decryption_shares(
                       [party_id \in SignParties |->
                            sign_result[party_id].decryption_shares[2]])
               s == ScalarDivide(partial_signature % ScalarOrder,
                                 masked_nonce % ScalarOrder)
           IN  s # 0 =>
                   EcdsaVerify(sign_message.message,
                               AffineXCoordinate(sign_message.msg.public_nonce), s,
                               GroupAdd(self.centralized_party_public_key_share,
                                        self.public_key_share))

\* the values of its presign row and of DKG that a party verifies the
\* proofs of a message against
StoredRowAndKey(self) ==
    <<self.nonce_public_share, self.centralized_party_nonce_shares_commitment,
      self.centralized_party_public_key_share, self.encrypted_mask,
      self.encrypted_masked_key_share>>

\* the message was produced for another presign row or another key than
\* the party stores
ProducedForOtherRowOrKey(party_id) ==
    StoredRowAndKey(SignParty(party_id, sign_message.produced_for))
        # StoredRowAndKey(SignParty(party_id, sign_secrets))

\* C39: a party returns shares only for a message whose three proofs are
\* proofs for the statements and language parameters built from the values
\* the party stores (nonce public share, nonce share commitment and public
\* key share of the centralized party, encrypted mask, encrypted masked key
\* share); a message produced for another presign row or another key is
\* rejected with an error and no decryption share.
C39_ProofsBoundToStoredRow ==
    \A party_id \in SignParties :
        SignDone(party_id) =>
            LET self == SignParty(party_id, sign_secrets)
                msg == sign_message.msg
            IN  /\ sign_result[party_id].kind = "Ok" =>
                      /\ msg.public_nonce_proof.statements =
                             << <<self.nonce_public_share,
                                  self.centralized_party_nonce_shares_commitment>> >>
                      /\ msg.nonce_share_by_key_share_proof.public_parameters =
                             [base_by_discrete_log |->
                                  self.centralized_party_public_key_share]
                      /\ msg.nonce_share_by_key_share_proof.statements[1][1] =
                             self.centralized_party_nonce_shares_commitment
                      /\ msg.encrypted_partial_signature_proof.public_parameters.ciphertexts
                             = <<self.encrypted_mask, self.encrypted_masked_key_share>>
                /\ ProducedForOtherRowOrKey(party_id) =>
                      /\ sign_result[party_id].kind \in {"Proofs", "Group"}
                      /\ sign_result[party_id].decryption_shares = <<>>

\* a message that would be accepted for its own row (both coefficients
\* committed to by the nonce share by key share commitment) arrives at a
\* party that stores another row or key, and is rejected
C39_Witness ==
    /\ sign_message # <<>>
    /\ sign_message.behaviour = "reusing"
    /\ sign_message.tampering.kind = "none"
    /\ sign_message.produced_for # sign_secrets
    /\ \A party_id \in SignParties :
          /\ SignDone(party_id)
          /\ ProducedForOtherRowOrKey(party_id)
          /\ sign_result[party_id].kind = "Proofs"
          /\ partially_decrypt_encrypted_signature_parts(
                 SignParty(party_id, sign_message.produced_for),
                 sign_message.message, sign_message.msg).kind = "Ok"

\* ------------------------------------------------------------------------
\* Properties of the DKG
\* ------------------------------------------------------------------------
\* the sum of the shares the committee parties sampled
SumOfShares ==
    ScalarSum([p \in DOMAIN dkg_shares |-> dkg_shares[p].share], DOMAIN dkg_shares)

\* C16: after a successful DKG both sides hold the same public key: the
\* public key share of the centralized party plus the public key share of
\* the decentralized party, which is the sum of the x_i * G of all committee
\* parties.
C16_JointPublicKeyIsSumOfShares ==
    dkg_result.kind = "Ok" =>
        LET decentralized_party_public_key_share ==
                GroupSum([p \in DOMAIN dkg_shares |->
                              GroupScalarMul(LanguagePublicParameters.generator,
                                             dkg_shares[p].share)],
                         DOMAIN dkg_shares)
            public_key ==
                GroupAdd(GroupScalarMul(LanguagePublicParameters.generator,
                                        dkg_party.secret_key_share),
                         decentralized_party_public_key_share)
        IN  /\ dkg_output.public_key_share = decentralized_party_public_key_share
            /\ dkg_result.public_key = public_key
            /\ dkg_party.public_key = public_key

C16_Witness ==
    /\ dkg_result.kind = "Ok"
    /\ Cardinality(DOMAIN dkg_shares) = MaxParties
    /\ \A p \in DOMAIN dkg_shares : dkg_shares[p].share # 0
    /\ dkg_party.secret_key_share # 0
    /\ dkg_result.public_key # dkg_party.public_key_share
    /\ dkg_result.public_key # dkg_output.public_key_share

\* C17: the encryption of the secret key share that the proof aggregation
\* round outputs decrypts, modulo q, to the sum of the shares of all
\* committee parties, and that sum is the discrete log of the public key
\* share of the same output.
C17_EncryptionOfSumOfShares ==
    dkg_output # <<>> =>
        /\ decrypt(dkg_output.encryption_of_secret_key_share) % ScalarOrder = SumOfShares
        /\ dkg_output.public_key_share =
               GroupScalarMul(LanguagePublicParameters.generator, SumOfShares)

C17_Witness ==
    /\ dkg_output # <<>>
    /\ Cardinality(DOMAIN dkg_shares) >= 2
    /\ SumOfShares # dkg_shares[1].share
    /\ decrypt(dkg_output.encryption_of_secret_key_share) >= ScalarOrder

\* C18: the decentralized party outputs a public key only for a
\* decommitment whose recomputed commitment is the commitment it received in
\* its first round; a decommitment with another public key share or another
\* randomness ends in WrongDecommitment without a public key.
C18_DecommitmentReopensCommitment ==
    (dkg_committee.round = "done" /\ dkg_decommitment # <<>>) =>
        LET decommitment == dkg_decommitment.msg
            sent == dkg_decommitment.sent
        IN  /\ dkg_result.kind = "Ok" =>
                   commit_public_key_share(decommitment.public_key_share,
                                           decommitment.commitment_randomness) = dkg_message
            /\ (\/ decommitment.public_key_share # sent.public_key_share
                \/ decommitment.commitment_randomness # sent.commitment_randomness) =>
                   /\ dkg_result.kind = "WrongDecommitment"
                   /\ dkg_result.public_key = 0

C18_Witness ==
    /\ dkg_committee.round = "done"
    /\ dkg_decommitment # <<>>
    /\ dkg_decommitment.tampering = "commitment_randomness"
    /\ dkg_decommitment.msg.public_key_share = dkg_decommitment.sent.public_key_share
    /\ dkg_result.kind = "WrongDecommitment"

\* C19: the first round of the decentralized party ends in
\* ThresholdNotReached exactly when its party set has fewer parties than the
\* threshold, and then no share is sampled and no aggregation session is
\* created; otherwise a share is sampled and the session exists.
C19_ThresholdNotReachedExact ==
    [][(dkg_committee.round = "encryption_of_secret_key_share"
            /\ dkg_committee' # dkg_committee) =>
          IF Cardinality(dkg_committee.parties) < dkg_committee.threshold
          THEN /\ dkg_result'.kind = "ThresholdNotReached"
               /\ dkg_shares' = <<>>
               /\ dkg_committee'.round = "done"
          ELSE /\ dkg_result'.kind # "ThresholdNotReached"
               /\ DOMAIN dkg_shares' = dkg_committee.parties
               /\ dkg_committee'.round = "proof_aggregation"
               /\ dkg_committee'.encryption_of_secret_share_proof_aggregation_round_party.parties
                      = dkg_committee.parties]_vars

C19_Witness ==
    /\ dkg_result.kind = "ThresholdNotReached"
    /\ dkg_shares = <<>>
    /\ dkg_committee.round = "done"

\* ------------------------------------------------------------------------
\* C20: every honestly generated batched Schnorr proof verifies: for each
\* language and batch size, with statements s_j = phi(w_j), masks
\* mask_k = phi(r_k) and responses z_k = r_k + sum_j c_{k,j} * w_j, the
\* verifier's re-derived challenges satisfy
\* phi(z_k) = mask_k + sum_j c_{k,j} * s_j, and verify accepts
\* ------------------------------------------------------------------------
C20_HonestProofVerifies ==
    schnorr.round = "done" /\ schnorr.checked.kind = "none" =>
        LET pp == schnorr.language_public_parameters
            challenges ==
                compute_challenges(schnorr.proof.statement_masks, Len(schnorr.statements),
                    setup_protocol(ProtocolContext, pp, schnorr.statements))
        IN  /\ Len(schnorr.witnesses) >= 1
            /\ \A j \in DOMAIN schnorr.witnesses :
                   schnorr.statements[j]
                       = Language_group_homomorphism(schnorr.witnesses[j], pp)
            /\ \A k \in Reps :
                   /\ schnorr.proof.statement_masks[k]
                          = Language_group_homomorphism(schnorr.randomizers[k], pp)
                   /\ Language_group_homomorphism(schnorr.proof.responses[k], pp)
                          = GroupAdd(schnorr.proof.statement_masks[k],
                                     GroupLinearCombination(challenges[k], schnorr.statements))
            /\ schnorr.verified

\* a verified proof of knowledge of decommitment for a batch of two different
\* witnesses, with a non-zero randomizer and non-zero challenges
C20_Witness ==
    /\ schnorr.round = "done"
    /\ schnorr.checked.kind = "none"
    /\ schnorr.verified
    /\ schnorr.language_public_parameters.name = "Knowledge of Decommitment"
    /\ Len(schnorr.witnesses) = 2
    /\ schnorr.witnesses[1] # schnorr.witnesses[2]
    /\ schnorr.witnesses[1][1] # 0
    /\ schnorr.witnesses[2][2] # 0
    /\ schnorr.randomizers[1] # <<0, 0>>
    /\ \A j \in 1..2 :
           compute_challenges(schnorr.proof.statement_masks, 2,
               setup_protocol(ProtocolContext, schnorr.language_public_parameters,
                              schnorr.statements))[1][j] % ScalarOrder # 0

\* ------------------------------------------------------------------------
\* Properties of the verification of altered proofs
\* ------------------------------------------------------------------------
\* the challenges the verifier derives for a proof and a statement vector
ChallengesOf(proof, statements) ==
    compute_challenges(proof.statement_masks, Len(statements),
        setup_protocol(ProtocolContext, schnorr.language_public_parameters, statements))

\* the challenges re-derived for the checked proof act on the statements as
\* the challenges of the generated proof do
SameChallenges ==
    \A k \in Reps, j \in DOMAIN schnorr.statements :
        ChallengesOf(schnorr.checked.proof, schnorr.checked.statements)[k][j] % ScalarOrder
            = ChallengesOf(schnorr.proof, schnorr.statements)[k][j] % ScalarOrder

ExpectedTranscript(proof, statements) ==
    LET pp == schnorr.language_public_parameters
    IN  << <<pp.name, 0>>,
           <<"protocol context", ProtocolContext>>,
           <<"public parameters",
             pp.generator + (IF pp.name = "Knowledge of Decommitment"
                             THEN 8 * pp.randomness_generator ELSE 0)>> >>
        \o [j \in DOMAIN statements |-> <<"statement value", statements[j]>>]
        \o [k \in Reps |-> <<"randomizer public value", proof.statement_masks[k]>>]

\* the j-th challenge of repetition k drawn from that transcript
ExpectedChallenge(proof, statements, k, j) ==
    TranscriptChallenge(ExpectedTranscript(proof, statements), "challenge",
                        (k - 1) * Len(statements) + j)

\* C22: the prover and the verifier draw their challenges from a transcript
\* that starts with the language name and has absorbed, in this order, the
\* protocol context, the public parameters, every statement and then the
\* statement masks, and they draw one challenge per statement of the batch
C22_TranscriptOrder ==
    schnorr.round = "done" =>
        LET pp == schnorr.language_public_parameters
            checked == schnorr.checked
            batch == DOMAIN schnorr.statements
            component(z, i) == IF pp.name = "Knowledge of Decommitment" THEN z[i] ELSE z
            components == IF pp.name = "Knowledge of Decommitment" THEN 1..2 ELSE 1..1
        IN  \* the prover
            /\ \A k \in Reps, i \in components :
                   component(schnorr.proof.responses[k], i)
                       = ScalarAdd(component(schnorr.randomizers[k], i),
                             ScalarLinearCombination(
                                 [j \in batch |->
                                     ExpectedChallenge(schnorr.proof, schnorr.statements, k, j)],
                                 [j \in batch |-> component(schnorr.witnesses[j], i)]))
            \* the verifier
            /\ schnorr.verified <=>
                   \A k \in Reps :
                       Language_group_homomorphism(checked.proof.responses[k], pp)
                           = GroupAdd(checked.proof.statement_masks[k],
                                 GroupLinearCombination(
                                     [j \in batch |->
                                         ExpectedChallenge(checked.proof, checked.statements,
                                                           k, j)],
                                     checked.statements))
            /\ \A k \in Reps :
                   /\ Len(ChallengesOf(schnorr.proof, schnorr.statements)[k])
                          = Len(schnorr.witnesses)
                   /\ Len(ChallengesOf(checked.proof, checked.statements)[k])
                          = Len(checked.statements)

\* a proof for a batch of two was verified against an altered statement, so
\* the prover and the verifier drew their challenges from different transcripts
C22_Witness ==
    /\ schnorr.round = "done"
    /\ schnorr.checked.kind = "statements"
    /\ Len(schnorr.witnesses) = 2
    /\ \E j \in 1..2 :
           ExpectedChallenge(schnorr.checked.proof, schnorr.checked.statements, 1, j)
               # ExpectedChallenge(schnorr.proof, schnorr.statements, 1, j)

\* ------------------------------------------------------------------------
\* Properties of the languages
\* ------------------------------------------------------------------------
\* C23: two different languages, a language and its enhanced wrapper
\* included, never start their transcripts from the same domain-separation
\* state
C23_LanguagesStartDifferently ==
    call.function = "Transcript::new" /\ call.returned =>
        (call.arguments[1] # call.arguments[2] => call.result[1] # call.result[2])

\* C24: the enhanced language's group_homomorphism maps a witness (decomp,
\* r_range, unbounded) to the pair of the range proof's commitment to decomp
\* with randomness r_range and of the inner language's homomorphism applied
\* to compose_witness(decomp, unbounded); it returns an error if composing,
\* the inner homomorphism or constructing the commitment scheme fails.
C24_EnhancedHomomorphism ==
    (call.function = "EnhancedLanguage::group_homomorphism" /\ call.returned) =>
        LET witness == call.arguments[1]
            public_parameters == call.arguments[2]
            decomp == witness.range_proof_commitment_message
            inner == public_parameters.language_public_parameters
            scheme == public_parameters.range_proof_public_parameters
            composed == compose_witness(decomp, witness.unbounded_witness, inner)
            fails == \/ ~composed.ok
                     \/ ~LanguageGroupHomomorphismResult(composed.value, inner).ok
                     \/ ~RangeProofCommitmentSchemeNew(scheme)
        IN  IF fails THEN ~call.result.ok
            ELSE /\ call.result.ok
                 /\ call.result.value[1] =
                      GroupAdd(GroupAdd(Pow(scheme.message_generators[1], decomp[1], 7),
                                        Pow(scheme.message_generators[2], decomp[2], 7)),
                               Pow(scheme.randomness_generator,
                                   witness.range_proof_commitment_randomness, 7))
                 /\ call.result.value[2] = Language_group_homomorphism(composed.value, inner)

\* a call returned the statement of a witness whose parts exceed the range
\* claim and whose unbounded part is not zero
C24_Witness ==
    /\ call.function = "EnhancedLanguage::group_homomorphism"
    /\ call.returned
    /\ call.result.ok
    /\ call.arguments[1].range_proof_commitment_message = <<3, 2>>
    /\ call.arguments[1].unbounded_witness = 1
    /\ call.arguments[2].language_public_parameters.name = "Knowledge of Decommitment"

\* C25: for every language, the enhanced wrapper included, group_homomorphism
\* is additive: the statement of the sum of two witnesses is the sum of
\* their statements.
C25_GroupHomomorphismAdditive ==
    (call.function = "Language::group_homomorphism" /\ call.returned) =>
        call.result.of_sum = call.result.sum_of

\* the same for the languages that are not enhanced
PlainGroupHomomorphismAdditive ==
    (/\ call.function = "Language::group_homomorphism"
     /\ call.returned
     /\ call.arguments[1] # "enhanced") =>
        call.result.of_sum = call.result.sum_of

\* the same for the witnesses of the enhanced language whose sum does not
\* wrap around in the power-of-two group
UnwrappedGroupHomomorphismAdditive ==
    (/\ call.function = "Language::group_homomorphism"
     /\ call.returned
     /\ call.arguments[1] = "enhanced"
     /\ \A i \in 1..2 :
            call.arguments[2].range_proof_commitment_message[i]
                + call.arguments[3].range_proof_commitment_message[i]
              < 2^ScalarPublicParameters.MESSAGE_BITS) =>
        call.result.of_sum = call.result.sum_of

\* C26: for every scalar x < q and every range_claim_bits with
\* RANGE_CLAIMS_PER_SCALAR * range_claim_bits >= the bit length of q,
\* compose(decompose(x, range_claim_bits), pp, range_claim_bits) = x, every
\* limb of the decomposition being less than 2^range_claim_bits.
C26_DecompositionRoundTrip ==
    (/\ call.function = "DecomposableWitness::compose"
     /\ call.returned
     /\ call.arguments.RANGE_CLAIMS_PER_SCALAR * call.arguments.range_claim_bits
          >= BitLength(call.arguments.public_parameters.order)) =>
        /\ \A i \in DOMAIN call.result.decomposed :
               call.result.decomposed[i] < 2^call.arguments.range_claim_bits
        /\ call.result.composed.ok
        /\ call.result.composed.value = call.arguments.witness

\* the same when, in addition, a range claim is not wider than a limb
DecompositionRoundTripWithinLimbs ==
    (/\ call.function = "DecomposableWitness::compose"
     /\ call.returned
     /\ call.arguments.RANGE_CLAIMS_PER_SCALAR * call.arguments.range_claim_bits
          >= BitLength(call.arguments.public_parameters.order)
     /\ call.arguments.range_claim_bits <= call.arguments.public_parameters.MESSAGE_BITS) =>
        /\ \A i \in DOMAIN call.result.decomposed :
               call.result.decomposed[i] < 2^call.arguments.range_claim_bits
        /\ call.result.composed.ok
        /\ call.result.composed.value = call.arguments.witness

C29_ZeroDimensionFails ==
    (/\ call.function = "evaluate_linear_combination"
     /\ call.returned
     /\ Len(call.arguments.coefficients) = 0) =>
        ~call.result.ok

\* C30: in the power-of-two group (arithmetic modulo 2^w) and in a direct
\* product of groups, x * (a + b) = x * a + x * b, x * 0 = neutral,
\* x * 1 = x and x * 2 = double(x) for every element x and all scalars a, b,
\* narrower or wider than the element; in a direct product the scalar acts
\* on both components.
C30_ScalarMulLaws ==
    (call.function = "GroupElement::scalar_mul" /\ call.returned) =>
        LET group == call.arguments.group
            x == call.arguments.x
            a == call.arguments.a
        IN  /\ call.result.by_sum = ProductGroupAdd(group, call.result.by_a, call.result.by_b)
            /\ call.result.by_0 = call.result.neutral
            /\ ProductGroupAdd(group, x, call.result.neutral) = x
            /\ call.result.by_1 = x
            /\ call.result.by_2 = call.result.double
            /\ group = "direct_product" =>
                   call.result.by_a = <<(x[1] * a) % 2^ScalarPublicParameters.MESSAGE_BITS,
                                        Pow(x[2], a, 7)>>
            /\ group # "direct_product" =>
                   call.result.by_a = (x * a) % 2^ScalarPublicParameters.MESSAGE_BITS

\* an element of the direct product was multiplied by two scalars wider than
\* its first component whose products and whose sum wrap around
C30_Witness ==
    /\ call.function = "GroupElement::scalar_mul"
    /\ call.returned
    /\ call.arguments.group = "direct_product"
    /\ call.arguments.x = <<3, 2>>
    /\ call.arguments.a = 7
    /\ call.arguments.b = 6
    /\ call.result.by_sum = <<3, 2>>

\* C31: sampling from the power-of-two group fails exactly when
\* sampling_bit_size exceeds the width of the integer; otherwise, also for
\* sampling_bit_size 0 and for the full width, it succeeds and the sampled
\* value is in [0, 2^sampling_bit_size).
C31_SampleWithinBits ==
    (call.function = "GroupElement::sample" /\ call.returned) =>
        /\ ~call.result.sampled.ok <=> call.arguments.sampling_bit_size > call.arguments.BITS
        /\ call.result.sampled.ok =>
               /\ call.result.sampled.value >= 0
               /\ call.result.sampled.value < 2^call.arguments.sampling_bit_size

\* an element was sampled with sampling_bit_size 0 from a random value with
\* all bits set
C31_Witness ==
    /\ call.function = "GroupElement::sample"
    /\ call.returned
    /\ call.arguments.sampling_bit_size = 0
    /\ call.arguments.BITS = MaxBits
    /\ call.result.random = 2^MaxBits - 1
    /\ call.result.sampled.ok
    /\ call.result.sampled.value = 0

\* C32: the commitment the commitment round of the centralized DKG party
\* returns is commit_public_key_share of the public key share and the
\* commitment randomness stored in the returned decommitment round party,
\* the stored public key share is the stored secret key share times the
\* generator, and the output of the round is the commitment alone.
C32_CommitmentOfStoredShare ==
    dkg_party.round = "decommitment" =>
        /\ dkg_message =
               CommitTranscript(
                   SerializeToTranscript(
                       TranscriptNew("DKG commitment round of centralized party"),
                       "public key share", dkg_party.public_key_share),
                   dkg_party.commitment_randomness)
        /\ dkg_party.public_key_share =
               Pow(LanguagePublicParameters.generator, dkg_party.secret_key_share, 7)
        /\ dkg_message \in 0..63

\* the round returned with a secret key share and a commitment randomness
\* that are not zero
C32_Witness ==
    /\ dkg_party.round = "decommitment"
    /\ dkg_party.secret_key_share = 2
    /\ dkg_party.public_key_share = 4
    /\ dkg_party.commitment_randomness = 1
    /\ dkg_message # -1

\* C33: verify_presign_output never returns Ok when the encrypted nonces or
\* one of the two vectors of range proof commitments of the output have
\* fewer entries than the batch size, so that every Presign row it emits was
\* covered by both verified proofs.
C33_ShortVectorsRejected ==
    (PresignDone /\ presign_result.kind = "Ok") =>
        /\ RowsPresent
        /\ TupleRowCount >= Len(presign_result.presigns)
        /\ DiscreteLogRowCount >= Len(presign_result.presigns)

\* C34: the centralized presign party publishes one Pedersen commitment per
\* sampled nonce share, the i-th being the commitment of the i-th nonce
\* share under the i-th commitment randomness, and row i of the Presigns
\* that verify_presign_output returns stores exactly that i-th pair, so
\* that row i opens commitment i.
C34_RowOpensCommitment ==
    cparty.round \in {"proof_verification", "done"} =>
        LET shares == cparty.signature_nonce_shares_and_commitment_randomnesses
            commitments == nonce_message.commitments
        IN  /\ Len(commitments) = Len(shares)
            /\ \A i \in DOMAIN shares :
                  commitments[i] = (Pow(2, shares[i][1], 7) * Pow(4, shares[i][2], 7)) % 7
            /\ presign_result.kind = "Ok" =>
                  /\ Len(presign_result.presigns) = Len(commitments)
                  /\ \A i \in DOMAIN commitments :
                        LET row == presign_result.presigns[i]
                        IN  /\ <<row.nonce_share, row.commitment_randomness>> = shares[i]
                            /\ commitments[i] =
                                   (Pow(2, row.nonce_share, 7)
                                       * Pow(4, row.commitment_randomness, 7)) % 7

\* two rows with different nonce shares, different commitment randomnesses
\* and different commitments were returned
C34_Witness ==
    /\ cparty.round = "done"
    /\ presign_result.kind = "Ok"
    /\ cparty.signature_nonce_shares_and_commitment_randomnesses = <<<<1, 2>>, <<2, 1>>>>
    /\ nonce_message.commitments = <<4, 2>>
    /\ Len(presign_result.presigns) = 2

\* C35: initialize_proof_aggregation of the encrypted masked nonces round
\* starts exactly one nonce masking session per row of the party, session i
\* with the encrypted mask of row i, the nonce share of row i, its
\* encryption randomness and a freshly sampled randomness; when the number
\* of mask statements or of nonce statements it receives differs from the
\* number of nonce shares the party stored, it fails instead of returning
\* fewer sessions than rows.
C35_OneSessionPerRow ==
    (call.function = "initialize_proof_aggregation" /\ call.returned) =>
        LET self == call.arguments.self
            rows == Len(self.shares_of_signature_nonce_shares_witnesses)
            masks == call.arguments.masks_and_encrypted_masked_key_share
            nonces == call.arguments.encrypted_nonce_shares_and_public_shares
            returns == call.result.returns
        IN  IF Len(masks) = rows /\ Len(nonces) = rows
            THEN /\ returns.kind = "Ok"
                 /\ Len(returns.sessions) = rows
                 /\ \A i \in 1..rows :
                       /\ returns.sessions[i].language_public_parameters.ciphertext
                              = masks[i][1]
                       /\ returns.sessions[i].witnesses =
                              << <<self.shares_of_signature_nonce_shares_witnesses[i],
                                   self.shares_of_signature_nonce_shares_encryption_randomness[i],
                                   call.result.sampled[i]>> >>
            ELSE returns.kind # "Ok"

PublicParameterFields ==
    {"protocol_context", "group_public_parameters", "scalar_group_public_parameters",
     "encryption_scheme_public_parameters", "range_proof_public_parameters",
     "unbounded_encdl_witness_public_parameters",
     "unbounded_encdh_witness_public_parameters", "generator",
     "language_public_parameters"}

\* every such field the party of the next round has is the one of the party
\* it was made from
ParametersCarried(self, next_round_party) ==
    \A field \in (PublicParameterFields \cap DOMAIN self) \cap DOMAIN next_round_party :
        next_round_party[field] = self[field]

\* the party of the next round has every such field of the party it was
\* made from, unchanged
AllParametersCarried(self, next_round_party) ==
    /\ (PublicParameterFields \cap DOMAIN self) \subseteq DOMAIN next_round_party
    /\ ParametersCarried(self, next_round_party)

C38_RestartsEndWithOk ==
    /\ [](restart.removed \cap restart.honest = {})
    /\ <>(restart.phase = "done" /\ restart.result.kind = "Ok")

====
